---- MODULE Spec2Model ----
(***************************************************************************)
(* Model of the unified contract generator of vite-plugin-tana             *)
(* (src/src/generator.ts, RSC version): the project scan, the bundling of  *)
(* each route file into a unit with a renamed entry point, the assembly of *)
(* contract.js, and the behaviour of the generated routers Page, Get, get  *)
(* and post when the runtime calls them; and of the hydration module that  *)
(* src/src/banner.ts generates for the browser: the parsing of the Flight  *)
(* rows, their decoding into a tree, the rendering into #root and the      *)
(* three modes of loadPage.                                                *)
(*                                                                         *)
(* Text that the code inspects character by character (route paths,        *)
(* request paths, directory names) is a sequence of one-character strings. *)
(* Identifiers and file names, which the code only compares as a whole,    *)
(* are TLA+ strings.                                                       *)
(***************************************************************************)
EXTENDS Integers, Sequences, FiniteSets, TLC

VARIABLES fs, structure, contract, pc, request, response, modules,
          clientComponents, document, body, buffer, rowCache, promiseCache,
          reactRoot, screen, lp, cycles, build, manifest, edge, watch

\* the state of the generator and of the runtime that calls the contract
generatorVars == <<fs, structure, contract, pc, request, response, modules>>

\* the state of the hydration module in the browser
clientVars == <<clientComponents, document, body, buffer, rowCache,
                promiseCache, reactRoot, screen, lp>>

\* the state of the dev server: the tana-edge process with the requests
\* that wait for it, and the change events of the file watcher
devVars == <<edge, watch>>

\* the state of the plugin: the rebuilds of the dev server in flight, the
\* production build of closeBundle, and the route manifest of scanRoutes
pluginVars == <<cycles, build, manifest, devVars>>

vars == <<generatorVars, clientVars, pluginVars>>

(***************************************************************************)
(* Bounds of the model.                                                    *)
(***************************************************************************)
\* longest request path, in characters
MaxPathLen == 4
\* largest number of route files in a project of the routing specification
MaxFiles == 2
\* largest number of source files in a project of the bundling specification
MaxUnits == 2
\* largest number of lines of a Flight response
MaxRows == 2
\* largest number of rebuilds of the dev server
MaxCycles == 2
\* maxAttempts of waitForEdgeHealth, scaled down from 50
MaxAttempts == 2
\* the largest number of requests the dev server receives
MaxRequests == 2

(***************************************************************************)
(* JavaScript string operations on character sequences.                    *)
(***************************************************************************)
\* String.prototype.startsWith
StartsWith(s, pre) ==
  /\ Len(s) >= Len(pre)
  /\ SubSeq(s, 1, Len(pre)) = pre

\* String.prototype.endsWith
EndsWith(s, suf) ==
  /\ Len(s) >= Len(suf)
  /\ SubSeq(s, Len(s) - Len(suf) + 1, Len(s)) = suf

\* String.prototype.slice(n) for n >= 0
Slice(s, n) == SubSeq(s, n + 1, Len(s))

\* String.prototype.split('/'): the pieces between the separators, '' gives ['']
RECURSIVE Split(_)
Split(s) ==
  IF s = <<>> THEN << <<>> >>
  ELSE IF Head(s) = "/" THEN << <<>> >> \o Split(Tail(s))
  ELSE LET r == Split(Tail(s)) IN << <<Head(s)>> \o Head(r) >> \o Tail(r)

\* Array.prototype.filter(Boolean) on a list of strings: drops the empty ones
RECURSIVE FilterBoolean(_)
FilterBoolean(seq) ==
  IF seq = <<>> THEN <<>>
  ELSE IF Head(seq) # <<>> THEN <<Head(seq)>> \o FilterBoolean(Tail(seq))
  ELSE FilterBoolean(Tail(seq))

\* the characters of the directory names of the model
Chars ==
  ("p" :> <<"p">>) @@ ("lib" :> <<"l", "i", "b">>) @@ ("[i]" :> <<"[", "i", "]">>)

(***************************************************************************)
(* The project on disk.  fs maps every file to its content; a file is      *)
(* [top, dir, name]: the top-level directory (app, api, blockchain), the   *)
(* directories below it and the file name.  A directory exists when a file *)
(* lies in or below it.                                                    *)
(***************************************************************************)
Files == DOMAIN fs

\* fs.existsSync of a directory
DirExists(files, top, dir) ==
  \E f \in files :
    /\ f.top = top
    /\ Len(f.dir) >= Len(dir)
    /\ SubSeq(f.dir, 1, Len(dir)) = dir

\* the sub-directories and the files of a directory (fs.readdirSync)
SubDirs(files, top, dir) ==
  { f.dir[Len(dir) + 1] :
      f \in { g \in files : /\ g.top = top
                            /\ Len(g.dir) > Len(dir)
                            /\ SubSeq(g.dir, 1, Len(dir)) = dir } }

FilesIn(files, top, dir) ==
  { f.name : f \in { g \in files : g.top = top /\ g.dir = dir } }

\* listings that may leave entries of the directory out
OrdersPartial(S) ==
  { o \in UNION { [1..n -> S] : n \in 0..Cardinality(S) } :
      \A i, j \in DOMAIN o : o[i] = o[j] => i = j }

\* every order in which readdirSync may list a set of entries
Orders(S) ==
  { o \in [1..Cardinality(S) -> S] :
      \A i, j \in 1..Cardinality(S) : o[i] = o[j] => i = j }

\* the utility directories scanDir skips
SkippedDirs == {"components", "lib", "utils", "styles"}

\* the file names scanDir recognises for a file type
ExpectedNames(fileType) ==
  IF fileType = "page"
  THEN {"page.tsx", "page.ts", "page.jsx", "page.js"}
  ELSE {fileType \o ".tsx", fileType \o ".ts", fileType \o ".jsx", fileType \o ".js"}

\* routePath.split('/').filter(s => s.startsWith(':')).map(s => s.slice(1))
RECURSIVE ParamNames(_)
ParamNames(segs) ==
  IF segs = <<>> THEN <<>>
  ELSE IF StartsWith(Head(segs), <<":">>)
       THEN <<Slice(Head(segs), 1)>> \o ParamNames(Tail(segs))
       ELSE ParamNames(Tail(segs))

\* the RouteFile scanDir pushes for a route file found under prefix;
\* params is <<>> where the code leaves it undefined
RouteFileOf(top, dir, name, prefix, fileType) ==
  LET routePath == IF prefix = <<>> THEN <<"/">> ELSE prefix
  IN [filePath |-> [top |-> top, dir |-> dir, name |-> name],
      routePath |-> routePath,
      type |-> fileType,
      params |-> ParamNames(Split(routePath))]

\* scanDir: the route lists it can append, one for every order in which the
\* entries of each directory can be listed
RECURSIVE ScanDir(_, _, _, _, _), ScanEntries(_, _, _, _, _, _, _)
ScanDir(files, top, dir, prefix, fileType) ==
  IF ~DirExists(files, top, dir) THEN { <<>> }
  ELSE UNION { ScanEntries(files, top, dir, prefix, fileType, o, 1) :
                 o \in Orders(SubDirs(files, top, dir) \cup FilesIn(files, top, dir)) }

\* the body of the for loop of scanDir from the i-th entry of the listing on
ScanEntries(files, top, dir, prefix, fileType, entries, i) ==
  IF i > Len(entries) THEN { <<>> }
  ELSE
    LET name == entries[i]
        rest == ScanEntries(files, top, dir, prefix, fileType, entries, i + 1)
        here ==
          IF name \in SubDirs(files, top, dir)
          THEN IF name \in SkippedDirs THEN { <<>> }
               ELSE IF StartsWith(Chars[name], <<"[">>) /\ EndsWith(Chars[name], <<"]">>)
                    THEN ScanDir(files, top, Append(dir, name),
                                 prefix \o <<"/", ":">>
                                   \o SubSeq(Chars[name], 2, Len(Chars[name]) - 1),
                                 fileType)
                    ELSE ScanDir(files, top, Append(dir, name),
                                 prefix \o <<"/">> \o Chars[name], fileType)
          ELSE IF name \in ExpectedNames(fileType)
               THEN { << RouteFileOf(top, dir, name, prefix, fileType) >> }
               ELSE { <<>> }
    IN { h \o r : h \in here, r \in rest }

\* the value of an optional field that is not set
Unset == [filePath |-> [top |-> "", dir |-> <<>>, name |-> ""],
          routePath |-> <<>>, type |-> "unset", params |-> <<>>]

\* scanProject: every ProjectStructure it can return for the files on disk
ScanProject(files) ==
  LET initPath == [top |-> "blockchain", dir |-> <<>>, name |-> "init.ts"]
      contractPath == [top |-> "blockchain", dir |-> <<>>, name |-> "contract.ts"]
  IN { [pages |-> pg, apiGet |-> g, apiPost |-> po,
        init |-> IF initPath \in files
                 THEN [filePath |-> initPath, routePath |-> <<>>,
                       type |-> "init", params |-> <<>>]
                 ELSE Unset,
        contract |-> IF contractPath \in files
                     THEN [filePath |-> contractPath, routePath |-> <<>>,
                           type |-> "contract", params |-> <<>>]
                     ELSE Unset] :
       pg \in ScanDir(files, "app", <<>>, <<>>, "page"),
       g \in ScanDir(files, "api", <<>>, <<>>, "get"),
       po \in ScanDir(files, "api", <<>>, <<>>, "post") }

(***************************************************************************)
(* Code text.  The output of esbuild for a file, and the code of the       *)
(* contract, is a sequence of top-level statements [k, n, refs]:           *)
(*   import                 import ... from "..."                          *)
(*   function               function n(...) { ... }, refs the identifiers  *)
(*                          its body refers to                             *)
(*   var                    var n = ...                                    *)
(*   exportAs               export { n as default };                       *)
(*   exportList             export { n as default, metadata };             *)
(*   exportNamed            export { n };                                  *)
(*   exportDefaultFunction  export default function n(...) { ... }         *)
(*   exportDefaultName      export default n;                              *)
(*   exportFunction         export function n(...) { ... }                 *)
(*   importTop              the binding n of an import of the contract     *)
(*   comment                a comment line                                 *)
(*   invalid                text esbuild cannot parse                      *)
(***************************************************************************)
Stmt(k, n) == [k |-> k, n |-> n, refs |-> {}]

FunctionStmt(n, refs) == [k |-> "function", n |-> n, refs |-> refs]

\* the index of the first statement of code that satisfies a kind, 0 if none
RECURSIVE FirstOfKind(_, _, _)
FirstOfKind(code, kind, i) ==
  IF i > Len(code) THEN 0
  ELSE IF code[i].k = kind THEN i
  ELSE FirstOfKind(code, kind, i + 1)

\* code without its i-th statement
RemoveAt(code, i) == SubSeq(code, 1, i - 1) \o SubSeq(code, i + 1, Len(code))

\* code.replace(/^import\s+.*?from\s+["'].*?["'];?\s*$/gm, '')
RECURSIVE StripImports(_)
StripImports(code) ==
  IF code = <<>> THEN <<>>
  ELSE IF Head(code).k = "import" THEN StripImports(Tail(code))
  ELSE <<Head(code)>> \o StripImports(Tail(code))

\* an alias that tells the kinds of API handler apart by the index only
AliasNameByIndex(type, index) ==
  IF type = "page" THEN "Page_" \o ToString(index)
  ELSE IF type = "init" THEN "initHandler"
  ELSE IF type = "contract" THEN "contractHandler"
  ELSE "Handler_" \o ToString(index)

\* the alias bundleFile gives the entry point of a unit
AliasName(type, index) ==
  IF type = "page" THEN "Page_" \o ToString(index)
  ELSE IF type = "get" THEN "GetHandler_" \o ToString(index)
  ELSE IF type = "post" THEN "PostHandler_" \o ToString(index)
  ELSE IF type = "init" THEN "initHandler"
  ELSE IF type = "contract" THEN "contractHandler"
  ELSE "Handler_" \o ToString(index)

\* first step of the search: export { Name as default }; is removed
LocateExportAs(code) ==
  LET i == FirstOfKind(code, "exportAs", 1)
  IN IF i = 0 THEN [code |-> code, originalName |-> ""]
     ELSE [code |-> RemoveAt(code, i), originalName |-> code[i].n]

\* second step: export default function Name becomes function Name
LocateExportDefaultFunction(st) ==
  IF st.originalName # "" THEN st
  ELSE LET i == FirstOfKind(st.code, "exportDefaultFunction", 1)
       IN IF i = 0 THEN st
          ELSE [code |-> [st.code EXCEPT ![i].k = "function"],
                originalName |-> st.code[i].n]

\* third step: export default Name; is removed
LocateExportDefaultName(st) ==
  IF st.originalName # "" THEN st
  ELSE LET i == FirstOfKind(st.code, "exportDefaultName", 1)
       IN IF i = 0 THEN st
          ELSE [code |-> RemoveAt(st.code, i), originalName |-> st.code[i].n]

\* the index of the first text "function name(" of code, 0 if none
RECURSIVE FirstFunction(_, _, _)
FirstFunction(code, name, i) ==
  IF i > Len(code) THEN 0
  ELSE IF code[i].k = "function" /\ code[i].n = name THEN i
  ELSE FirstFunction(code, name, i + 1)

\* the rename of the declaration of the entry point to the alias
RenameEntry(st, aliasName) ==
  IF st.originalName # "" /\ st.originalName # aliasName
  THEN LET i == FirstFunction(st.code, st.originalName, 1)
       IN IF i = 0 THEN st.code ELSE [st.code EXCEPT ![i].n = aliasName]
  ELSE st.code

\* bundleFile: ok is FALSE when the build of esbuild throws
BundleFile(content, type, index) ==
  IF FirstOfKind(content, "invalid", 1) # 0
  THEN [ok |-> FALSE, code |-> <<>>, componentName |-> ""]
  ELSE LET aliasName == AliasName(type, index)
           st == LocateExportDefaultName(
                   LocateExportDefaultFunction(
                     LocateExportAs(StripImports(content))))
       IN [ok |-> TRUE,
           code |-> RenameEntry(st, aliasName),
           componentName |-> aliasName]

\* the names a code text declares at top level, in text order
RECURSIVE DeclaredNames(_)
DeclaredNames(code) ==
  IF code = <<>> THEN <<>>
  ELSE IF Head(code).k \in {"function", "var", "exportFunction", "importTop",
                            "exportDefaultFunction"}
       THEN <<Head(code).n>> \o DeclaredNames(Tail(code))
       ELSE DeclaredNames(Tail(code))

\* the names a code text exports
ExportedNames(code) ==
  UNION { IF code[i].k = "exportFunction" THEN {code[i].n}
          ELSE IF code[i].k \in {"exportAs", "exportDefaultFunction",
                                 "exportDefaultName"} THEN {"default"}
          ELSE IF code[i].k = "exportList" THEN {"default", "metadata"}
          ELSE IF code[i].k = "exportNamed" THEN {code[i].n}
          ELSE {} : i \in 1..Len(code) }

(***************************************************************************)
(* JavaScript values the generated functions return.                       *)
(***************************************************************************)
Null == [t |-> "null"]

\* a string child and a list of child nodes of an element
Text(chunks) == [text |-> chunks]

Nodes(elems) == [nodes |-> elems]

\* jsx(type, props)
Jsx(type, props) == [t |-> "jsx", type |-> type, props |-> props]

\* the value a page or a handler of the project returns for an argument
ResultOf(fn, arg) == [t |-> "result", of |-> fn, arg |-> arg]

\* the result of evaluating generated code: how it ended, the value it
\* returned and the functions of the project it called
Returned(value, calls) == [outcome |-> "returned", value |-> value, calls |-> calls]

Threw(error) == [outcome |-> error, value |-> Null, calls |-> <<>>]

\* the JSON not-found response of the API routers
NotFoundResponse ==
  [t |-> "response",
   status |-> 404,
   body |-> [error |-> "Not found"],
   headers |-> ("Content-Type" :> "application/json")]

\* the not-found node of the Page router of a project with pages
NotFoundNode(path) ==
  Jsx("div",
      [style |-> [padding |-> "40px", textAlign |-> "center"],
       children |-> Nodes(<<
         Jsx("h1", [key |-> "title", children |-> Text(<<"404">>)]),
         Jsx("p", [key |-> "msg",
                   children |-> Text(<<"Page not found: ">> \o path)]) >>)])

\* the node the Page router of a project without pages returns
NoPagesNode == Jsx("div", [children |-> Text(<<"404 - Page Not Found">>)])

(***************************************************************************)
(* The route patterns.  The generator turns a route path into the regular  *)
(* expression ^seg\/seg\/([^/]+)$: a ':name' segment becomes a group that  *)
(* matches one or more characters other than '/', every other segment is   *)
(* copied.  The directory names of the model hold no character that is     *)
(* special in a regular expression, so a copied segment matches itself.    *)
(***************************************************************************)
\* route.routePath.split('/').map(seg => seg.startsWith(':') ? '([^/]+)' : seg)
PatternOf(routePath) ==
  LET segs == Split(routePath)
  IN [i \in 1..Len(segs) |->
        [group |-> StartsWith(segs[i], <<":">>), text |-> segs[i]]]

\* a match that is not anchored at the end of the path: /^pattern/
MatchesUnanchored(path, pattern) ==
  LET parts == Split(path)
  IN /\ Len(parts) >= Len(pattern)
     /\ \A i \in 1..Len(pattern) :
          IF pattern[i].group THEN parts[i] # <<>>
          ELSE parts[i] = pattern[i].text

\* path.match(/^pattern$/)
Matches(path, pattern) ==
  LET parts == Split(path)
  IN /\ Len(parts) = Len(pattern)
     /\ \A i \in 1..Len(pattern) :
          IF pattern[i].group THEN parts[i] # <<>>
          ELSE parts[i] = pattern[i].text

\* the value of segments[i] when the array is shorter than i
Undefined == <<"undefined">>

\* the forEach of extractParams from the i-th pattern segment on
RECURSIVE AssignParams(_, _, _, _)
AssignParams(segments, patternSegments, i, params) ==
  IF i > Len(patternSegments) THEN params
  ELSE LET seg == patternSegments[i]
           value == IF i <= Len(segments) THEN segments[i] ELSE Undefined
       IN AssignParams(segments, patternSegments, i + 1,
                       IF StartsWith(seg, <<":">>)
                       THEN (Slice(seg, 1) :> value) @@ params
                       ELSE params)

\* extractParams of the generated contract
ExtractParams(path, pattern) ==
  AssignParams(FilterBoolean(Split(path)), FilterBoolean(Split(pattern)), 1, <<>>)

(***************************************************************************)
(* The generated routers.                                                  *)
(***************************************************************************)
\* generateRSCRouter: the clauses of Page; noPages is the branch taken for
\* an empty page list, which emits no extractParams
GenerateRSCRouter(pages, bundles) ==
  [noPages |-> pages = <<>>,
   clauses |-> [i \in 1..Len(pages) |->
                  [dynamic |-> pages[i].params # <<>>,
                   routePath |-> pages[i].routePath,
                   pattern |-> PatternOf(pages[i].routePath),
                   componentName |-> bundles[i].componentName]]]

\* generateAPIRouter: the text between "switch (path) {" and "default:" is
\* one item per route, an if statement for a route with params and a case
\* clause for every other route, in catalog order
GenerateAPIRouter(routes, bundles, method) ==
  [noRoutes |-> routes = <<>>,
   name |-> method,
   items |-> [i \in 1..Len(routes) |->
                [kind |-> IF routes[i].params # <<>> THEN "if" ELSE "case",
                 routePath |-> routes[i].routePath,
                 pattern |-> PatternOf(routes[i].routePath),
                 handlerName |-> bundles[i].componentName]]]

\* a switch body must begin with a case or default clause: a statement
\* before the first clause is a syntax error
SwitchParses(router) ==
  router.noRoutes \/ router.items[1].kind = "case"

\* the use of an identifier that the contract does not declare throws
Declared(name, declared) == \E i \in 1..Len(declared) : declared[i] = name

\* a Page whose later clauses win over the earlier ones
PageLastMatch(router, declared, req) ==
  IF router.noPages THEN Returned(NoPagesNode, <<>>)
  ELSE
    LET path == IF req.path = <<>> THEN <<"/">> ELSE req.path
        hits == { i \in 1..Len(router.clauses) :
                    IF router.clauses[i].dynamic
                    THEN Matches(path, router.clauses[i].pattern)
                    ELSE path = router.clauses[i].routePath }
    IN IF hits = {} THEN Returned(NotFoundNode(path), <<>>)
       ELSE LET c == router.clauses[CHOOSE i \in hits : \A j \in hits : i >= j]
            IN Returned(Jsx(c.componentName,
                            IF c.dynamic
                            THEN [request |-> req,
                                  params |-> ExtractParams(path, c.routePath)]
                            ELSE [request |-> req]),
                        <<>>)

\* the generated Page(props)
Page(router, declared, req) ==
  IF router.noPages THEN Returned(NoPagesNode, <<>>)
  ELSE
    LET path == IF req.path = <<>> THEN <<"/">> ELSE req.path
        hits == { i \in 1..Len(router.clauses) :
                    IF router.clauses[i].dynamic
                    THEN Matches(path, router.clauses[i].pattern)
                    ELSE path = router.clauses[i].routePath }
    IN IF hits = {} THEN Returned(NotFoundNode(path), <<>>)
       ELSE LET c == router.clauses[CHOOSE i \in hits : \A j \in hits : i <= j]
            IN IF ~Declared(c.componentName, declared)
               THEN Threw("ReferenceError")
               ELSE IF c.dynamic
               THEN IF ~Declared("extractParams", declared)
                    THEN Threw("ReferenceError")
                    ELSE Returned(Jsx(c.componentName,
                                      [request |-> req,
                                       params |-> ExtractParams(path, c.routePath)]),
                                  <<>>)
               ELSE Returned(Jsx(c.componentName, [request |-> req]), <<>>)

\* the call of a handler of the project from a router
CallHandler(handlerName, declared, arg) ==
  IF Declared(handlerName, declared)
  THEN Returned(ResultOf(handlerName, arg),
                <<[fn |-> handlerName, arg |-> arg]>>)
  ELSE Threw("ReferenceError")

\* the statements of the switch body from the i-th item on; control that
\* runs past the last item falls into the default clause
RECURSIVE RunItems(_, _, _, _)
RunItems(items, i, declared, req) ==
  IF i > Len(items) THEN Returned(NotFoundResponse, <<>>)
  ELSE IF items[i].kind = "case"
       THEN CallHandler(items[i].handlerName, declared, req)
       ELSE IF Matches(req.path, items[i].pattern)
            THEN IF ~Declared("extractParams", declared)
                 THEN Threw("ReferenceError")
                 ELSE CallHandler(items[i].handlerName, declared,
                        [k \in DOMAIN req \cup {"params"} |->
                           IF k = "params"
                           THEN ExtractParams(req.path, items[i].routePath)
                           ELSE req[k]])
            ELSE RunItems(items, i + 1, declared, req)

\* the generated get(request) and post(request): switch (path) jumps to the
\* first case clause whose label is the path, or to default
ApiRouter(router, declared, req) ==
  IF router.noRoutes THEN Returned(NotFoundResponse, <<>>)
  ELSE IF ~SwitchParses(router) THEN Threw("SyntaxError")
  ELSE LET labels == { i \in 1..Len(router.items) :
                         /\ router.items[i].kind = "case"
                         /\ router.items[i].routePath = req.path }
       IN IF labels = {} THEN Returned(NotFoundResponse, <<>>)
          ELSE RunItems(router.items,
                        CHOOSE i \in labels : \A j \in labels : i <= j,
                        declared, req)

\* the API prefix test of Get
UnderApiPrefix(path) ==
  StartsWith(path, <<"/", "a", "p", "i">>) \/ StartsWith(path, <<"a", "p", "i">>)

\* the path after the prefix, handed on without a leading slash added
NormalizedPathAsSliced(path) ==
  LET apiPath == IF StartsWith(path, <<"/", "a", "p", "i">>)
                 THEN Slice(path, 4) ELSE Slice(path, 3)
  IN IF apiPath = <<>> THEN <<"/">> ELSE apiPath

\* the path Get hands to the method router
NormalizedPath(path) ==
  LET apiPath == IF StartsWith(path, <<"/", "a", "p", "i">>)
                 THEN Slice(path, 4) ELSE Slice(path, 3)
  IN IF apiPath = <<>> THEN <<"/">>
     ELSE IF StartsWith(apiPath, <<"/">>) THEN apiPath
     ELSE <<"/">> \o apiPath

\* a Get that routes every path, page paths included, through the API routers
GetRoutingEveryPath(getRouter, postRouter, declared, req) ==
  LET apiRequest == IF UnderApiPrefix(req.path)
                    THEN [req EXCEPT !.path = NormalizedPath(req.path)] ELSE req
      via == IF req.method = "POST" THEN "post" ELSE "get"
      r == IF req.method = "POST"
           THEN ApiRouter(postRouter, declared, apiRequest)
           ELSE ApiRouter(getRouter, declared, apiRequest)
  IN [r EXCEPT !.calls = <<[fn |-> via, arg |-> apiRequest]>> \o @]

\* the generated Get(request); the call of the method router is recorded
\* before the calls the router makes
Get(getRouter, postRouter, declared, req) ==
  IF UnderApiPrefix(req.path)
  THEN LET apiRequest == [req EXCEPT !.path = NormalizedPath(req.path)]
           via == IF req.method = "POST" THEN "post" ELSE "get"
           r == IF req.method = "POST"
                THEN ApiRouter(postRouter, declared, apiRequest)
                ELSE ApiRouter(getRouter, declared, apiRequest)
       IN [r EXCEPT !.calls = <<[fn |-> via, arg |-> apiRequest]>> \o @]
  ELSE Returned(Null, <<>>)

(***************************************************************************)
(* The assembly of contract.js.                                            *)
(***************************************************************************)
\* structure.<list>.map((route, i) => bundleFile(route.filePath, type, i))
BundleAll(files, routes, type) ==
  [i \in 1..Len(routes) |-> BundleFile(files[routes[i].filePath], type, i - 1)]

\* bundles.map(b => b.code) spread into the list of parts
RECURSIVE CodeOf(_)
CodeOf(bundles) ==
  IF bundles = <<>> THEN <<>> ELSE Head(bundles).code \o CodeOf(Tail(bundles))

\* the top-level statements of the text of a router
RSCRouterCode(router) ==
  IF router.noPages
  THEN << Stmt("exportFunction", "Page"), Stmt("exportFunction", "Get") >>
  ELSE << Stmt("function", "extractParams"),
          Stmt("exportFunction", "Page"), Stmt("exportFunction", "Get") >>

APIRouterCode(router) == << Stmt("exportFunction", router.name) >>

\* the contract before generateContract has written one
NoContract ==
  [written |-> FALSE, code |-> <<>>,
   pageRouter |-> GenerateRSCRouter(<<>>, <<>>),
   getRouter |-> GenerateAPIRouter(<<>>, <<>>, "get"),
   postRouter |-> GenerateAPIRouter(<<>>, <<>>, "post"),
   units |-> <<>>]

\* the bundles of the init and the contract hook, those that exist
HookBundles(st, files) ==
  (IF st.init.type = "init"
   THEN <<BundleFile(files[st.init.filePath], "init", 0)>> ELSE <<>>)
  \o (IF st.contract.type = "contract"
      THEN <<BundleFile(files[st.contract.filePath], "contract", 0)>>
      ELSE <<>>)

\* the contract generateContract joins from the bundles and writes, or
\* NoContract when the build of a unit has thrown and nothing is written
Assembled(st, pageBundles, getBundles, postBundles, hooks) ==
  LET initCode == IF st.init.type = "init" /\ hooks[1].code # <<>>
                  THEN hooks[1].code
                  ELSE << Stmt("comment", "No init() function defined") >>
      contractCode == IF st.contract.type = "contract" /\ hooks[Len(hooks)].code # <<>>
                      THEN hooks[Len(hooks)].code
                      ELSE << Stmt("comment", "No contract() function defined") >>
      all == pageBundles \o getBundles \o postBundles \o hooks
      pageRouter == GenerateRSCRouter(st.pages, pageBundles)
      getRouter == GenerateAPIRouter(st.apiGet, getBundles, "get")
      postRouter == GenerateAPIRouter(st.apiPost, postBundles, "post")
  IN IF \E i \in 1..Len(all) : ~all[i].ok THEN NoContract
     ELSE [written |-> TRUE,
           code |-> << Stmt("importTop", "json"), Stmt("importTop", "status") >>
                    \o initCode \o contractCode
                    \o CodeOf(pageBundles) \o CodeOf(getBundles) \o CodeOf(postBundles)
                    \o RSCRouterCode(pageRouter)
                    \o APIRouterCode(getRouter) \o APIRouterCode(postRouter),
           pageRouter |-> pageRouter,
           getRouter |-> getRouter,
           postRouter |-> postRouter,
           units |-> all]

\* generateContract: the contract it writes, or NoContract when the build of
\* a unit throws and nothing is written; units lists the bundled units
GenerateContract(st, files) ==
  Assembled(st, BundleAll(files, st.pages, "page"),
            BundleAll(files, st.apiGet, "get"),
            BundleAll(files, st.apiPost, "post"), HookBundles(st, files))

(***************************************************************************)
(* The inputs: the files of a project and the requests of the runtime.     *)
(***************************************************************************)
File(top, dir, name) == [top |-> top, dir |-> dir, name |-> name]

\* the esbuild output of a file with one function, exported as default
PlainSource == << FunctionStmt("handler", {}), Stmt("exportAs", "handler") >>

\* the route files of the projects of the routing specification
RouteDirs == { <<>>, <<"p">>, <<"[i]">>, <<"p", "[i]">> }

ApiDirs == { <<>>, <<"p">>, <<"[i]">> }

RouterFiles ==
  { File("app", d, "page.tsx") : d \in RouteDirs }
    \cup { File("api", d, "get.ts") : d \in ApiDirs }
    \cup { File("api", d, "post.ts") : d \in ApiDirs }

\* the esbuild outputs of the projects of the bundling specification
Sources ==
  { << Stmt("import", "tana/http"), FunctionStmt("handler", {}),
       Stmt("exportAs", "handler") >>,
    << FunctionStmt("formatDate", {}), FunctionStmt("Home", {"formatDate"}),
       Stmt("exportAs", "Home") >>,
    << Stmt("var", "handler"), Stmt("exportAs", "handler") >>,
    << FunctionStmt("handler", {}), Stmt("exportList", "handler") >>,
    << FunctionStmt("post", {}), Stmt("exportNamed", "post") >>,
    << Stmt("exportDefaultFunction", "handler") >>,
    << FunctionStmt("handler", {}), Stmt("exportDefaultName", "handler") >>,
    << FunctionStmt("Page_0", {}), Stmt("exportAs", "Page_0") >>,
    << FunctionStmt("walk", {"walk"}), Stmt("exportAs", "walk") >>,
    << Stmt("invalid", "") >> }

\* the source files of the projects of the bundling specification
UnitFiles ==
  { File("app", <<>>, "page.tsx"), File("app", <<"p">>, "page.tsx"),
    File("app", <<>>, "layout.tsx"), File("app", <<"lib">>, "page.tsx"),
    File("api", <<>>, "get.ts"), File("api", <<>>, "post.ts"),
    File("blockchain", <<>>, "init.ts"), File("blockchain", <<>>, "contract.ts") }

\* the characters of request paths and the request paths of the model
PathChars == {"/", "a", "p", "i"}

ReqPaths == UNION { [1..n -> PathChars] : n \in 0..MaxPathLen }

Methods == {"GET", "POST", "PUT"}

Request(path, method) == [path |-> path, method |-> method, body |-> "payload"]

NoRequest == [entry |-> "none", req |-> Request(<<>>, "")]

NoResponse == Threw("none")

(***************************************************************************)
(* The state machine: the project is scanned, the contract is generated    *)
(* from the scan, and the runtime calls the entry points of the contract.  *)
(***************************************************************************)
\* no rebuild is in flight, closeBundle has not run, no manifest is made
\* waitForEdgeHealth has not been called
NoHealth ==
  [attempts |-> 0, outstanding |-> 0, destroyed |-> 0, timers |-> 0,
   settled |-> "none", then |-> FALSE]

\* the dev server before configureServer: let edgeReady = false and the
\* first resetEdgeReady()
EdgeIdle ==
  [pc |-> "idle", variant |-> "none", foreign |-> FALSE, attempt |-> "none",
   process |-> "none", listening |-> FALSE, output |-> 0,
   ready |-> FALSE, promise |-> 1, resolved |-> {},
   requests |-> <<>>, health |-> NoHealth]

PluginIdle ==
  /\ cycles = <<>>
  /\ build = [pc |-> "idle"]
  /\ manifest = <<>>
  /\ edge = EdgeIdle
  /\ watch = <<>>

\* the hydration module has not been loaded
ClientIdle ==
  /\ clientComponents = {}
  /\ document = [pathname |-> "/", island |-> FALSE, flightData |-> <<>>,
                 rootChildren |-> 0, placeholders |-> <<>>]
  /\ body = [ok |-> TRUE, sent |-> <<>>, resumed |-> FALSE]
  /\ buffer = <<>>
  /\ rowCache = <<>>
  /\ promiseCache = <<>>
  /\ reactRoot = 0
  /\ screen = [roots |-> 0, renders |-> 0, tree |-> [t |-> "none"],
               renderedInto |-> 0, mounts |-> <<>>, fetches |-> <<>>]
  /\ lp = "idle"

InitWith(projects) ==
  /\ fs \in projects
  /\ PluginIdle
  /\ modules = <<>>
  /\ ClientIdle
  /\ structure = [pages |-> <<>>, apiGet |-> <<>>, apiPost |-> <<>>,
                  init |-> Unset, contract |-> Unset]
  /\ contract = NoContract
  /\ pc = "start"
  /\ request = NoRequest
  /\ response = NoResponse

\* projects of at most MaxFiles route files, each with a plain source
InitRouter ==
  InitWith({ [f \in F |-> PlainSource] :
               F \in { G \in SUBSET RouterFiles : Cardinality(G) <= MaxFiles } })

\* projects of at most MaxUnits source files with any of the sources
InitBundle ==
  InitWith(UNION { [F -> Sources] :
                     F \in { G \in SUBSET UnitFiles : Cardinality(G) <= MaxUnits } })

\* scanProject(root)
ScanProjectStep ==
  /\ pc = "start"
  /\ structure' \in ScanProject(Files)
  /\ pc' = "scanned"
  /\ UNCHANGED <<fs, contract, request, response>>
  /\ UNCHANGED <<modules, clientVars, pluginVars>>

\* generateContract(structure, outDir)
GenerateContractStep ==
  /\ pc = "scanned"
  /\ contract' = GenerateContract(structure, fs)
  /\ pc' = IF contract'.written THEN "ready" ELSE "failed"
  /\ UNCHANGED <<fs, structure, request, response>>
  /\ UNCHANGED <<modules, clientVars, pluginVars>>

\* the runtime calls Page({ request })
CallPage ==
  /\ pc = "ready"
  /\ \E path \in ReqPaths :
       /\ request' = [entry |-> "Page", req |-> Request(path, "GET")]
       /\ response' = Page(contract.pageRouter, DeclaredNames(contract.code),
                           Request(path, "GET"))
  /\ pc' = "responded"
  /\ UNCHANGED <<fs, structure, contract>>
  /\ UNCHANGED <<modules, clientVars, pluginVars>>

\* the runtime calls Get(request)
CallGet ==
  /\ pc = "ready"
  /\ \E path \in ReqPaths, method \in Methods :
       /\ request' = [entry |-> "Get", req |-> Request(path, method)]
       /\ response' = Get(contract.getRouter, contract.postRouter,
                          DeclaredNames(contract.code), Request(path, method))
  /\ pc' = "responded"
  /\ UNCHANGED <<fs, structure, contract>>
  /\ UNCHANGED <<modules, clientVars, pluginVars>>

\* the runtime calls get(request)
CallGetRouter ==
  /\ pc = "ready"
  /\ \E path \in ReqPaths :
       /\ request' = [entry |-> "get", req |-> Request(path, "GET")]
       /\ response' = ApiRouter(contract.getRouter, DeclaredNames(contract.code),
                                Request(path, "GET"))
  /\ pc' = "responded"
  /\ UNCHANGED <<fs, structure, contract>>
  /\ UNCHANGED <<modules, clientVars, pluginVars>>

\* the runtime calls post(request)
CallPostRouter ==
  /\ pc = "ready"
  /\ \E path \in ReqPaths :
       /\ request' = [entry |-> "post", req |-> Request(path, "POST")]
       /\ response' = ApiRouter(contract.postRouter, DeclaredNames(contract.code),
                                Request(path, "POST"))
  /\ pc' = "responded"
  /\ UNCHANGED <<fs, structure, contract>>
  /\ UNCHANGED <<modules, clientVars, pluginVars>>

\* the runtime has taken the response; the contract serves the next request
Return ==
  /\ pc = "responded"
  /\ pc' = "ready"
  /\ request' = NoRequest
  /\ response' = NoResponse
  /\ UNCHANGED <<fs, structure, contract>>
  /\ UNCHANGED <<modules, clientVars, pluginVars>>

NextRouter ==
  \/ ScanProjectStep
  \/ GenerateContractStep
  \/ CallPage
  \/ CallGet
  \/ CallGetRouter
  \/ CallPostRouter
  \/ Return

NextBundle ==
  \/ ScanProjectStep
  \/ GenerateContractStep

\* routing: projects with plain sources and every request of the model
SpecRouter == InitRouter /\ [][NextRouter]_vars

\* bundling: projects with every kind of source
SpecBundle == InitBundle /\ [][NextBundle]_vars

(***************************************************************************)
(* The build of esbuild in bundleFile: the entry file is bundled with the  *)
(* files it imports; only the listed runtime modules stay imports.         *)
(***************************************************************************)
\* the external option of the build
External ==
  {"react", "react-dom", "react/jsx-runtime", "tana/http", "tana/net",
   "tana/kv", "tana/block", "tana/context", "tana/tx", "tana/core"}

\* a source file: its directive ("" for none), the packages and the project
\* files it imports, its top-level functions and its default export
Module(directive, packages, imports, decls, entry) ==
  [directive |-> directive, packages |-> packages, imports |-> imports,
   decls |-> decls, entry |-> entry]

\* bundle: true, the text of every imported project file, dependencies first,
\* each file once, under the comment esbuild writes with the file's path
RECURSIVE Inlined(_, _, _)
Inlined(mods, imports, seen) ==
  IF imports = <<>> THEN [code |-> <<>>, seen |-> seen, resolved |-> TRUE]
  ELSE LET f == Head(imports)
       IN IF f \in seen THEN Inlined(mods, Tail(imports), seen)
          ELSE IF f \notin DOMAIN mods
          THEN [code |-> <<>>, seen |-> seen, resolved |-> FALSE]
          ELSE LET deps == Inlined(mods, mods[f].imports, seen \cup {f})
                   rest == Inlined(mods, Tail(imports), deps.seen)
               IN [code |-> deps.code \o << Stmt("comment", f.name) >>
                              \o mods[f].decls \o rest.code,
                   seen |-> rest.seen,
                   resolved |-> deps.resolved /\ rest.resolved]

\* result.outputFiles[0].text of the build of a file: the imports of the
\* external packages, the inlined files, the file's own functions and its
\* default export; an unresolved import or a package that is not external
\* fails the build
Build(mods, file) ==
  LET m == mods[file]
      inlined == Inlined(mods, m.imports, {file})
  IN IF ~inlined.resolved \/ \E i \in 1..Len(m.packages) : m.packages[i] \notin External
     THEN << Stmt("invalid", "") >>
     ELSE [i \in 1..Len(m.packages) |-> Stmt("import", m.packages[i])]
          \o inlined.code \o << Stmt("comment", file.name) >> \o m.decls
          \o << Stmt("exportAs", m.entry) >>

\* the files of the projects with client components
Counter == File("components", <<>>, "Counter.tsx")

Toggle == File("components", <<>>, "Toggle.tsx")

Format == File("lib", <<>>, "format.ts")

Library ==
  (Counter :> Module("use client", <<"react">>, <<>>,
                     << FunctionStmt("Counter", {}) >>, "Counter"))
  @@ (Toggle :> Module("use client", <<"react">>, << Format >>,
                       << FunctionStmt("Toggle", {"formatDate"}) >>, "Toggle"))
  @@ (Format :> Module("", <<>>, <<>>,
                       << FunctionStmt("formatDate", {}) >>, "formatDate"))

\* the subsequences of a sequence
RECURSIVE SubSeqs(_)
SubSeqs(seq) ==
  IF seq = <<>> THEN { <<>> }
  ELSE LET r == SubSeqs(Tail(seq)) IN r \cup { <<Head(seq)>> \o t : t \in r }

\* a page that imports some of the files of the library
PageModules ==
  { Module("", packages, imports,
           << FunctionStmt("Home", { Library[imports[i]].entry : i \in 1..Len(imports) }) >>,
           "Home") :
      packages \in { <<>>, <<"tana/http">>, <<"left-pad">> },
      imports \in SubSeqs(<< Counter, Toggle, Format >>) }

PageFiles == { File("app", <<>>, "page.tsx"), File("app", <<"p">>, "page.tsx") }

\* projects of one or two pages over the library; the file system holds what
\* the build of each route file gives
InitClient ==
  /\ \E F \in (SUBSET PageFiles) \ { {} } :
       \E pages \in [F -> PageModules] :
         /\ modules = pages @@ Library
         /\ fs = [f \in F |-> Build(modules, f)]
  /\ structure = [pages |-> <<>>, apiGet |-> <<>>, apiPost |-> <<>>,
                  init |-> Unset, contract |-> Unset]
  /\ contract = NoContract
  /\ pc = "start"
  /\ request = NoRequest
  /\ response = NoResponse
  /\ ClientIdle
  /\ PluginIdle

\* client components: projects whose pages import client components
SpecClient == InitClient /\ [][NextBundle]_vars

(***************************************************************************)
(* Vocabulary of the properties.                                           *)
(***************************************************************************)
\* a request has been answered by the entry point
Answered(entry) == pc = "responded" /\ request.entry = entry

\* the catalog an API router was generated from
CatalogOf(entry) == IF entry = "get" THEN structure.apiGet ELSE structure.apiPost

\* a path has the shape of a route: as many segments, the same static
\* segments, and a non-empty segment for every dynamic one
HasShape(path, routePath) ==
  LET rs == Split(routePath)
      ps == Split(path)
  IN /\ Len(ps) = Len(rs)
     /\ \A k \in 1..Len(rs) :
          IF StartsWith(rs[k], <<":">>) THEN ps[k] # <<>> ELSE ps[k] = rs[k]

\* a route of a catalog is one a path is routed to
RouteMatches(route, path) ==
  IF route.params = <<>> THEN path = route.routePath
  ELSE HasShape(path, route.routePath)

\* each dynamic name of a route bound to the path segment at its position
ParamsAt(path, routePath) ==
  LET rs == Split(routePath)
      ps == Split(path)
      at == { k \in 1..Len(rs) : StartsWith(rs[k], <<":">>) }
  IN [n \in { Slice(rs[k], 1) : k \in at } |->
        ps[CHOOSE k \in at : Slice(rs[k], 1) = n]]

\* the request a router hands to a handler of a dynamic route
WithParams(req, params) ==
  [k \in DOMAIN req \cup {"params"} |-> IF k = "params" THEN params ELSE req[k]]

(***************************************************************************)
(* C1.  A request whose path matches no route catalogued for its method    *)
(* gets exactly the JSON 404 response from the get router and from the     *)
(* post router, also when the method has no route at all.                  *)
(***************************************************************************)
C1_UnmatchedGets404 ==
  \A entry \in {"get", "post"} :
    (/\ Answered(entry)
     /\ \A i \in 1..Len(CatalogOf(entry)) :
          ~RouteMatches(CatalogOf(entry)[i], request.req.path))
    => response = Returned(NotFoundResponse, <<>>)

(***************************************************************************)
(* C2.  For every page entry with dynamic segments, Page called with a     *)
(* path of the shape of its route renders the component of that entry with *)
(* each dynamic name bound to the segment at its position, and a path with *)
(* fewer or more segments does not match the entry.                        *)
(***************************************************************************)
C2_DynamicPageRendered ==
  Answered("Page") =>
    \A i \in 1..Len(structure.pages) :
      LET page == structure.pages[i]
          path == request.req.path
      IN page.params # <<>> =>
           /\ HasShape(path, page.routePath) =>
                response = Returned(Jsx(AliasName("page", i - 1),
                                        [request |-> request.req,
                                         params |-> ParamsAt(path, page.routePath)]),
                                    <<>>)
           /\ Len(Split(path)) # Len(Split(page.routePath)) =>
                (response.value.t = "jsx" => response.value.type # AliasName("page", i - 1))

\* C2 as amended: the entry is rendered unless an earlier entry of the
\* catalog matches the path
C2_DynamicPageRenderedFirstMatch ==
  Answered("Page") =>
    \A i \in 1..Len(structure.pages) :
      LET page == structure.pages[i]
          path == request.req.path
      IN page.params # <<>> =>
           /\ (/\ HasShape(path, page.routePath)
               /\ \A j \in 1..(i - 1) : ~RouteMatches(structure.pages[j], path)) =>
                response = Returned(Jsx(AliasName("page", i - 1),
                                        [request |-> request.req,
                                         params |-> ParamsAt(path, page.routePath)]),
                                    <<>>)
           /\ Len(Split(path)) # Len(Split(page.routePath)) =>
                (response.value.t = "jsx" => response.value.type # AliasName("page", i - 1))

\* the page /p/:i rendered for /p/a with params {i: 'a'} 
C2_Witness ==
  /\ Answered("Page")
  /\ request.req.path = <<"/", "p", "/", "a">>
  /\ \E i \in 1..Len(structure.pages) :
       /\ structure.pages[i].routePath = <<"/", "p", "/", ":", "i">>
       /\ response.outcome = "returned"
       /\ response.value = Jsx(AliasName("page", i - 1),
                               [request |-> request.req,
                                params |-> (<<"i">> :> <<"a">>)])

(***************************************************************************)
(* C3.  The get and post routers match dynamic routes as the page router   *)
(* does: a request whose path matches a dynamic API route is dispatched to *)
(* the handler of that route with the extracted params and does not fall   *)
(* through to the 404 default, whatever static routes precede or follow.   *)
(***************************************************************************)
C3_DynamicApiDispatched ==
  \A entry \in {"get", "post"} :
    Answered(entry) =>
      \A i \in 1..Len(CatalogOf(entry)) :
        LET route == CatalogOf(entry)[i]
            arg == WithParams(request.req, ParamsAt(request.req.path, route.routePath))
        IN (/\ route.params # <<>>
            /\ HasShape(request.req.path, route.routePath)
            /\ \A j \in 1..(i - 1) :
                 ~RouteMatches(CatalogOf(entry)[j], request.req.path))
           => response = Returned(ResultOf(AliasName(entry, i - 1), arg),
                                  <<[fn |-> AliasName(entry, i - 1), arg |-> arg]>>)

(***************************************************************************)
(* C4.  Get returns null, and calls no page component and no API handler,  *)
(* for every request whose path is not under the API prefix.               *)
(***************************************************************************)
C4_PagePathsReturnNull ==
  (/\ Answered("Get")
   /\ ~StartsWith(request.req.path, <<"/", "a", "p", "i">>)
   /\ ~StartsWith(request.req.path, <<"a", "p", "i">>))
  => response = Returned(Null, <<>>)

\* Get has returned null for the path of a catalogued page
C4_Witness ==
  /\ Answered("Get")
  /\ request.req.path = <<"/", "p">>
  /\ \E i \in 1..Len(structure.pages) : structure.pages[i].routePath = <<"/", "p">>
  /\ response = Returned(Null, <<>>)

(***************************************************************************)
(* C5.  For a path that begins with '/api' or 'api', Get removes the       *)
(* prefix and hands the method router a path that begins with '/', exactly *)
(* '/' when nothing follows the prefix, with every other field of the      *)
(* request unchanged; it dispatches to post exactly when the method is     *)
(* 'POST' and to get for every other method.                               *)
(***************************************************************************)
C5_PrefixStrippedAndDispatched ==
  LET path == request.req.path
      rest == IF StartsWith(path, <<"/", "a", "p", "i">>)
              THEN SubSeq(path, 5, Len(path)) ELSE SubSeq(path, 4, Len(path))
  IN (/\ Answered("Get")
      /\ StartsWith(path, <<"/", "a", "p", "i">>) \/ StartsWith(path, <<"a", "p", "i">>))
     => /\ Len(response.calls) >= 1
        /\ response.calls[1].fn = (IF request.req.method = "POST" THEN "post" ELSE "get")
        /\ Head(response.calls[1].arg.path) = "/"
        /\ response.calls[1].arg.path \in {rest, <<"/">> \o rest}
        /\ rest = <<>> => response.calls[1].arg.path = <<"/">>
        /\ DOMAIN response.calls[1].arg = DOMAIN request.req
        /\ \A k \in DOMAIN request.req \ {"path"} :
             response.calls[1].arg[k] = request.req[k]

\* Get has handed '/p' to post for the path 'api' followed by 'p' and '/'
\* to get for the bare prefix
C5_Witness ==
  /\ Answered("Get")
  /\ \/ /\ request.req.path = <<"a", "p", "i", "p">>
        /\ request.req.method = "POST"
        /\ response.calls[1].fn = "post"
        /\ response.calls[1].arg.path = <<"/", "p">>
     \/ /\ request.req.path = <<"/", "a", "p", "i">>
        /\ request.req.method = "PUT"
        /\ response.calls[1].fn = "get"
        /\ response.calls[1].arg.path = <<"/">>

(***************************************************************************)
(* C6.  For every page catalog, the empty one included, Page called with a *)
(* path that matches no catalogued page returns the not-found node: a      *)
(* '404' heading and 'Page not found: ' followed by the path (an empty     *)
(* path is read as '/').                                                   *)
(***************************************************************************)
C6_UnmatchedPageNotFoundNode ==
  LET path == IF request.req.path = <<>> THEN <<"/">> ELSE request.req.path
  IN (/\ Answered("Page")
      /\ \A i \in 1..Len(structure.pages) : ~RouteMatches(structure.pages[i], path))
     => response = Returned(NotFoundNode(path), <<>>)

(***************************************************************************)
(* C7.  The contract exposes the five entry points: Page, get and post are *)
(* always exported, and a project with an init hook (a contract hook) gets *)
(* an exported init (contract) entry point.                                *)
(***************************************************************************)
C7_EntryPointsExported ==
  pc = "ready" =>
    /\ {"Page", "get", "post"} \subseteq ExportedNames(contract.code)
    /\ structure.init.type = "init" => "init" \in ExportedNames(contract.code)
    /\ structure.contract.type = "contract" =>
         "contract" \in ExportedNames(contract.code)

(***************************************************************************)
(* C8.  Within one generateContract no two bundled units have the same     *)
(* alias: pages are Page_<i>, GET handlers GetHandler_<i>, POST handlers   *)
(* PostHandler_<i> with i the index in the unit's own list, and the hooks  *)
(* are initHandler and contractHandler.                                    *)
(***************************************************************************)
C8_AliasesDistinct ==
  pc = "ready" =>
    LET units == contract.units
        np == Len(structure.pages)
        ng == Len(structure.apiGet)
        no == Len(structure.apiPost)
        nh == np + ng + no
    IN /\ \A i, j \in 1..Len(units) :
            i # j => units[i].componentName # units[j].componentName
       /\ \A i \in 1..np : units[i].componentName = "Page_" \o ToString(i - 1)
       /\ \A i \in 1..ng : units[np + i].componentName = "GetHandler_" \o ToString(i - 1)
       /\ \A i \in 1..no :
            units[np + ng + i].componentName = "PostHandler_" \o ToString(i - 1)
       /\ structure.init.type = "init" => units[nh + 1].componentName = "initHandler"
       /\ structure.contract.type = "contract" =>
            units[Len(units)].componentName = "contractHandler"

\* a contract generated from a GET handler and a POST handler, both of
\* index 0 in their lists
C8_Witness ==
  /\ pc = "ready"
  /\ Len(structure.apiGet) = 1
  /\ Len(structure.apiPost) = 1
  /\ contract.units[1].componentName = "GetHandler_0"
  /\ contract.units[2].componentName = "PostHandler_0"

(***************************************************************************)
(* C9.  In the assembled contract no identifier is declared at top level   *)
(* twice: the definitions of a unit (the renamed entry point and the       *)
(* helpers inlined with it) have names distinct from the definitions of    *)
(* every other unit and from the generated router functions.               *)
(***************************************************************************)
C9_TopLevelNamesDistinct ==
  pc = "ready" =>
    LET names == DeclaredNames(contract.code)
    IN \A i, j \in 1..Len(names) : i # j => names[i] # names[j]

(***************************************************************************)
(* C10.  When the bundled source has none of the forms                     *)
(* export { X as default }, export default function X, export default X,   *)
(* bundleFile raises an error, so generation does not complete; a unit it  *)
(* returns has its alias declared in its code.                             *)
(***************************************************************************)
C10_NoDefaultExportIsFatal ==
  pc = "ready" =>
    /\ \A f \in { structure.pages[i].filePath : i \in 1..Len(structure.pages) }
               \cup { structure.apiGet[i].filePath : i \in 1..Len(structure.apiGet) }
               \cup { structure.apiPost[i].filePath : i \in 1..Len(structure.apiPost) } :
         \E i \in 1..Len(fs[f]) :
           fs[f][i].k \in {"exportAs", "exportDefaultFunction", "exportDefaultName"}
    /\ \A i \in 1..Len(contract.units) :
         Declared(contract.units[i].componentName,
                  DeclaredNames(contract.units[i].code))

(***************************************************************************)
(* The hydration module (src/src/banner.ts, generateHydrationModule): the  *)
(* text it receives is a sequence of characters, the values of JSON are    *)
(* tagged records.                                                         *)
(***************************************************************************)
Num(n) == [t |-> "number", v |-> n]

Str(chars) == [t |-> "string", v |-> chars]

Arr(items) == [t |-> "array", items |-> items]

\* an object: its entries [k, v] in insertion order
Obj(entries) == [t |-> "object", entries |-> entries]

UndefinedValue == [t |-> "undefined"]

\* the result of parseInt for a text without a leading number
NaN == -1

DigitChars == {"0", "1", "2", "3", "4", "5", "6", "7", "8", "9"}

DigitOf(c) == CHOOSE d \in 0..9 : ToString(d) = c

\* the white space of String.prototype.trim and of JSON
WhiteSpace == {" "}

\* the first position of s from i on that holds no white space
RECURSIVE SkipWs(_, _)
SkipWs(s, i) ==
  IF i <= Len(s) /\ s[i] \in WhiteSpace THEN SkipWs(s, i + 1) ELSE i

\* String.prototype.trim
RECURSIVE Trim(_)
Trim(s) ==
  IF s = <<>> THEN s
  ELSE IF Head(s) \in WhiteSpace THEN Trim(Tail(s))
  ELSE IF s[Len(s)] \in WhiteSpace THEN Trim(SubSeq(s, 1, Len(s) - 1))
  ELSE s

\* String.prototype.indexOf(c, i - 1), counted from 0, -1 when c is not in s
\* from position i on
IndexFrom(s, c, i) ==
  LET at == { j \in i..Len(s) : s[j] = c }
  IN IF at = {} THEN -1 ELSE (CHOOSE j \in at : \A k \in at : j <= k) - 1

IndexOf(s, c) == IndexFrom(s, c, 1)

\* String.prototype.split(sep) for a separator of one character: the pieces
\* between the separators, in order
SplitOn(s, sep) ==
  LET seps == { i \in 1..Len(s) : s[i] = sep }
      starts == {0} \cup seps
      StartOf(n) == CHOOSE i \in starts : Cardinality({ j \in starts : j < i }) = n - 1
      EndOf(i) == IF \E j \in seps : j > i
                  THEN (CHOOSE j \in seps : j > i /\ \A k \in seps : k > i => j <= k) - 1
                  ELSE Len(s)
  IN [n \in 1..Cardinality(starts) |-> SubSeq(s, StartOf(n) + 1, EndOf(StartOf(n)))]

\* the value of the digits of s from position i on, after the value acc
RECURSIVE DigitsValue(_, _, _)
DigitsValue(s, i, acc) ==
  IF i <= Len(s) /\ s[i] \in DigitChars
  THEN DigitsValue(s, i + 1, 10 * acc + DigitOf(s[i]))
  ELSE acc

\* parseInt(s, 10) for texts without a sign: the leading digits after the
\* white space, NaN when there is none
ParseInt(s) ==
  LET i == SkipWs(s, 1)
  IN IF i <= Len(s) /\ s[i] \in DigitChars THEN DigitsValue(s, i, 0) ELSE NaN


\* JSON.parse: a text of the values null, true, false, the numbers written
\* with digits only, the strings without escapes, arrays and objects. A parse
\* gives ok, the value and the position after it.
NoParse == [ok |-> FALSE, value |-> Null, next |-> 0]

Parsed(value, next) == [ok |-> TRUE, value |-> value, next |-> next]

\* the word at position i of s
ParseLiteral(s, i, word, value) ==
  IF SubSeq(s, i, i + Len(word) - 1) = word
  THEN Parsed(value, i + Len(word)) ELSE NoParse

\* the position after the digits of s from i on
RECURSIVE AfterDigits(_, _)
AfterDigits(s, i) ==
  IF i <= Len(s) /\ s[i] \in DigitChars THEN AfterDigits(s, i + 1) ELSE i

\* a number: 0, or digits that do not start with 0
ParseNumber(s, i) ==
  IF s[i] = "0" THEN Parsed(Num(0), i + 1)
  ELSE Parsed(Num(DigitsValue(s, i, 0)), AfterDigits(s, i))

\* a string: the characters between the quote at i and the next quote
ParseString(s, i) ==
  LET close == IndexFrom(s, "\"", i + 1)
  IN IF i > Len(s) \/ s[i] # "\"" \/ close = -1 THEN NoParse
     ELSE LET chars == SubSeq(s, i + 1, close)
          IN IF \E j \in 1..Len(chars) : chars[j] = "\\" THEN NoParse
             ELSE Parsed(Str(chars), close + 2)

RECURSIVE ParseValue(_, _), ParseElements(_, _, _), ParseMembers(_, _, _)
RECURSIVE ElementsAfter(_, _, _), MembersAfter(_, _, _, _)
\* a value at position i of s
ParseValue(s, i) ==
  IF i > Len(s) THEN NoParse
  ELSE IF s[i] = "n" THEN ParseLiteral(s, i, <<"n", "u", "l", "l">>, Null)
  ELSE IF s[i] = "t"
  THEN ParseLiteral(s, i, <<"t", "r", "u", "e">>, [t |-> "boolean", v |-> TRUE])
  ELSE IF s[i] = "f"
  THEN ParseLiteral(s, i, <<"f", "a", "l", "s", "e">>, [t |-> "boolean", v |-> FALSE])
  ELSE IF s[i] \in DigitChars THEN ParseNumber(s, i)
  ELSE IF s[i] = "\"" THEN ParseString(s, i)
  ELSE IF s[i] = "["
  THEN LET j == SkipWs(s, i + 1)
       IN IF j <= Len(s) /\ s[j] = "]" THEN Parsed(Arr(<<>>), j + 1)
          ELSE ParseElements(s, j, <<>>)
  ELSE IF s[i] = "{"
  THEN LET j == SkipWs(s, i + 1)
       IN IF j <= Len(s) /\ s[j] = "}" THEN Parsed(Obj(<<>>), j + 1)
          ELSE ParseMembers(s, j, <<>>)
  ELSE NoParse

\* the elements of an array from position i on, after the elements items
ParseElements(s, i, items) == ElementsAfter(s, ParseValue(s, i), items)

\* the elements of an array after the parse e of one of them
ElementsAfter(s, e, items) ==
  LET j == SkipWs(s, e.next)
  IN IF ~e.ok \/ j > Len(s) THEN NoParse
     ELSE IF s[j] = "]" THEN Parsed(Arr(Append(items, e.value)), j + 1)
     ELSE IF s[j] = "," THEN ParseElements(s, SkipWs(s, j + 1), Append(items, e.value))
     ELSE NoParse

\* the members of an object from position i on, after the members entries;
\* a later member replaces an earlier one of the same name in its place
ParseMembers(s, i, entries) ==
  LET k == ParseString(s, i)
      c == SkipWs(s, k.next)
  IN IF ~k.ok \/ c > Len(s) \/ s[c] # ":" THEN NoParse
     ELSE MembersAfter(s, k.value.v, ParseValue(s, SkipWs(s, c + 1)), entries)

\* the members of an object after the parse e of the value of the member
\* of the name name
MembersAfter(s, name, e, entries) ==
  LET j == SkipWs(s, e.next)
      member == [k |-> name, v |-> e.value]
      added == IF \E n \in 1..Len(entries) : entries[n].k = name
               THEN [n \in 1..Len(entries) |->
                       IF entries[n].k = name THEN member ELSE entries[n]]
               ELSE Append(entries, member)
  IN IF ~e.ok \/ j > Len(s) THEN NoParse
     ELSE IF s[j] = "}" THEN Parsed(Obj(added), j + 1)
     ELSE IF s[j] = "," THEN ParseMembers(s, SkipWs(s, j + 1), added)
     ELSE NoParse

\* the parse r of a value is the parse of the text when only white space
\* follows the value
WholeText(text, r) ==
  IF r.ok /\ SkipWs(text, r.next) = Len(text) + 1
  THEN [ok |-> TRUE, value |-> r.value]
  ELSE [ok |-> FALSE, value |-> Null]

\* JSON.parse(text): ok is FALSE when it throws a SyntaxError
JSONParse(text) == WholeText(text, ParseValue(text, SkipWs(text, 1)))


\* the Flight protocol markers
FLIGHT_ELEMENT == <<"$">>

FLIGHT_LAZY == <<"$", "L">>

FLIGHT_CLIENT_REF == <<"$", "C">>

FLIGHT_UNDEFINED == <<"$", "u", "n", "d", "e", "f", "i", "n", "e", "d">>

FLIGHT_PROMISE == <<"$", "@">>

\* the names of the properties the decoder reads
KeyName == <<"k", "e", "y">>

ChildrenName == <<"c", "h", "i", "l", "d", "r", "e", "n">>

FallbackName == <<"f", "a", "l", "l", "b", "a", "c", "k">>

\* obj?.name: undefined when obj is no object or has no such property
Prop(obj, name) ==
  IF obj.t = "object" /\ \E n \in 1..Len(obj.entries) : obj.entries[n].k = name
  THEN obj.entries[CHOOSE n \in 1..Len(obj.entries) : obj.entries[n].k = name].v
  ELSE UndefinedValue

\* the entries of a list of entries without those of a name
RECURSIVE Without(_, _)
Without(entries, name) ==
  IF entries = <<>> THEN <<>>
  ELSE IF Head(entries).k = name THEN Without(Tail(entries), name)
  ELSE <<Head(entries)>> \o Without(Tail(entries), name)

\* { key, ...props }
WithKey(key, props) ==
  << [k |-> KeyName,
      v |-> IF Prop(props, KeyName) # UndefinedValue THEN Prop(props, KeyName) ELSE key] >>
    \o (IF props.t = "object" THEN Without(props.entries, KeyName) ELSE <<>>)

\* React.createElement(type, props, children)
Element(type, props, children) ==
  [t |-> "element", type |-> type, props |-> props, children |-> children]

\* the element a lazy reference shows while its row is missing
LoadingPlaceholder ==
  Element([host |-> <<"d", "i", "v">>],
          << [k |-> <<"className">>, v |-> Str(<<"loading">>)] >>,
          Str(<<"Loading...">>))

\* a missing client component that makes the decoder throw
MissingComponentThrows(key, moduleId) == [t |-> "TypeError"]

\* the element shown for a client component that is not registered
MissingComponent(key, moduleId) ==
  Element([host |-> <<"d", "i", "v">>],
          << [k |-> KeyName, v |-> key],
             [k |-> <<"style">>, v |-> Obj(<< [k |-> <<"color">>, v |-> Str(<<"red">>)] >>)] >>,
          Str(<<"Missing: ">> \o moduleId))

\* a condition on a value: false for null, undefined, 0, '' and false
Truthy(value) ==
  /\ value.t \notin {"null", "undefined"}
  /\ value.t = "number" => value.v # 0
  /\ value.t = "string" => value.v # <<>>
  /\ value.t = "boolean" => value.v

\* the i-th element of a destructured array, undefined beyond its end
At(items, i) == IF i <= Len(items) THEN items[i] ELSE UndefinedValue

\* a lazy reference that is never taken as resolved
HasRowNever(rows, id) == FALSE

\* rowCache.has(id)
HasRow(rows, id) == id \in DOMAIN rows

\* flightToReact(value) with the row cache rows and the registry components;
\* a pending-promise reference gives the handle of its id, and a call of a
\* method of a type that is no string gives the node TypeError
RECURSIVE FlightToReact(_, _, _), CreateReactElement(_, _, _, _, _)
FlightToReact(value, rows, components) ==
  IF value.t = "null" THEN Null
  ELSE IF value = Str(FLIGHT_UNDEFINED) THEN UndefinedValue
  ELSE IF value.t = "string"
  THEN IF StartsWith(value.v, FLIGHT_LAZY)
       THEN LET id == ParseInt(Slice(value.v, 2))
            IN IF HasRow(rows, id) THEN FlightToReact(rows[id], rows, components)
               ELSE LoadingPlaceholder
       ELSE IF StartsWith(value.v, FLIGHT_PROMISE)
       THEN [t |-> "promise", id |-> ParseInt(Slice(value.v, 2))]
       ELSE value
  ELSE IF value.t \in {"number", "boolean"} THEN value
  ELSE IF value.t = "array"
  THEN IF At(value.items, 1) = Str(FLIGHT_ELEMENT)
       THEN CreateReactElement(At(value.items, 2), At(value.items, 3),
                               At(value.items, 4), rows, components)
       ELSE Arr([i \in 1..Len(value.items) |->
                   FlightToReact(value.items[i], rows, components)])
  ELSE IF value.t = "object"
  THEN Obj([n \in 1..Len(value.entries) |->
              [k |-> value.entries[n].k,
               v |-> FlightToReact(value.entries[n].v, rows, components)]])
  ELSE value

\* createReactElement(type, key, props)
CreateReactElement(type, key, props, rows, components) ==
  IF type = Str(<<"$", "S", "u", "s", "p", "e", "n", "s", "e">>)
  THEN Element([builtin |-> "React.Suspense"],
               << [k |-> KeyName, v |-> key],
                  [k |-> FallbackName,
                   v |-> FlightToReact(Prop(props, FallbackName), rows, components)] >>,
               FlightToReact(Prop(props, ChildrenName), rows, components))
  ELSE IF type.t # "string" THEN [t |-> "TypeError"]
  ELSE IF StartsWith(type.v, FLIGHT_CLIENT_REF)
  THEN LET moduleId == Slice(type.v, 2)
       IN IF moduleId \notin components THEN MissingComponent(key, moduleId)
          ELSE Element([component |-> moduleId],
                       WithKey(key, IF Truthy(props)
                                    THEN FlightToReact(props, rows, components)
                                    ELSE Obj(<<>>)),
                       UndefinedValue)
  ELSE LET convertedProps == IF Truthy(props)
                             THEN FlightToReact(props, rows, components)
                             ELSE Obj(<<>>)
           restProps == IF convertedProps.t = "object"
                        THEN Obj(Without(convertedProps.entries, ChildrenName))
                        ELSE Obj(<<>>)
       IN Element([host |-> type.v], WithKey(key, restProps),
                  Prop(convertedProps, ChildrenName))

\* the first outcome of a sequence of calls that is not a return
FirstFailure(first, rest) == IF first # "returns" THEN first ELSE rest

\* how a call flightToReact(value) ends: it returns, it throws, or it never
\* returns and the call stack overflows.  inside holds the rows whose
\* decoding the call is nested in; the cache does not change during a
\* decoding, so a reference to one of these rows repeats the calls above it
RECURSIVE Outcome(_, _, _, _), OutcomeOfAll(_, _, _, _)
Outcome(value, rows, components, inside) ==
  IF value.t = "string"
  THEN IF StartsWith(value.v, FLIGHT_LAZY)
          /\ HasRow(rows, ParseInt(Slice(value.v, 2)))
       THEN IF ParseInt(Slice(value.v, 2)) \in inside THEN "overflows"
            ELSE Outcome(rows[ParseInt(Slice(value.v, 2))], rows, components,
                         inside \cup {ParseInt(Slice(value.v, 2))})
       ELSE "returns"
  ELSE IF value.t = "array"
  THEN IF At(value.items, 1) = Str(FLIGHT_ELEMENT)
       THEN IF At(value.items, 2) = Str(<<"$", "S", "u", "s", "p", "e", "n", "s", "e">>)
            THEN OutcomeOfAll(<< Prop(At(value.items, 4), FallbackName),
                                 Prop(At(value.items, 4), ChildrenName) >>,
                              rows, components, inside)
            ELSE IF At(value.items, 2).t # "string" THEN "throws"
            ELSE IF StartsWith(At(value.items, 2).v, FLIGHT_CLIENT_REF)
                    /\ Slice(At(value.items, 2).v, 2) \notin components
            THEN "returns"
            ELSE IF Truthy(At(value.items, 4))
            THEN Outcome(At(value.items, 4), rows, components, inside)
            ELSE "returns"
       ELSE OutcomeOfAll(value.items, rows, components, inside)
  ELSE IF value.t = "object"
  THEN OutcomeOfAll([n \in 1..Len(value.entries) |-> value.entries[n].v],
                    rows, components, inside)
  ELSE "returns"

\* the calls for the items of an array or the values of an object, in order
OutcomeOfAll(values, rows, components, inside) ==
  IF values = <<>> THEN "returns"
  ELSE FirstFailure(Outcome(Head(values), rows, components, inside),
                    OutcomeOfAll(Tail(values), rows, components, inside))

\* the nodes of a decoded tree that hold no other node, in the order of the
\* decoding
RECURSIVE Leaves(_), LeavesOfAll(_)
Leaves(node) ==
  IF node.t = "array" THEN LeavesOfAll(node.items)
  ELSE IF node.t = "object"
  THEN LeavesOfAll([n \in 1..Len(node.entries) |-> node.entries[n].v])
  ELSE IF node.t = "element"
  THEN LeavesOfAll([n \in 1..Len(node.props) |-> node.props[n].v])
       \o Leaves(node.children)
  ELSE << node >>

LeavesOfAll(nodes) ==
  IF nodes = <<>> THEN <<>> ELSE Leaves(Head(nodes)) \o LeavesOfAll(Tail(nodes))


\* { id, value: JSON.parse(json) }: a throw when json is no JSON
RowOf(id, json) ==
  IF ~json.ok THEN [kind |-> "throw", id |-> NaN, value |-> Null]
  ELSE [kind |-> "row", id |-> id, value |-> json.value]

\* parseFlightRow(line): null without a colon, a throw when the text after
\* the colon is no JSON, else the row
ParseFlightRow(line) ==
  LET colonIndex == IndexOf(line, ":")
  IN IF colonIndex = -1 THEN [kind |-> "null", id |-> NaN, value |-> Null]
     ELSE RowOf(ParseInt(SubSeq(line, 1, colonIndex)),
                JSONParse(Slice(line, colonIndex + 1)))

\* the promise cache after the decoding has met the leaves from the i-th on:
\* createStreamingPromise for every id that has no handle yet
RECURSIVE WithPromises(_, _, _)
WithPromises(promises, leaves, i) ==
  IF i > Len(leaves) THEN promises
  ELSE IF leaves[i].t = "promise" /\ leaves[i].id \notin DOMAIN promises
  THEN WithPromises((leaves[i].id :> [serial |-> Cardinality(DOMAIN promises) + 1,
                                      state |-> "pending"]) @@ promises,
                    leaves, i + 1)
  ELSE WithPromises(promises, leaves, i + 1)

\* a render that makes a root of its own
NewRootEveryRender(st) == st.screen.roots + 1

\* the root render() renders into: reactRoot, created by createRoot(rootEl)
\* when there is none; roots are numbered from 1
RootOf(st) == IF st.reactRoot = 0 THEN st.screen.roots + 1 ELSE st.reactRoot

\* the render of a tree with the leaves leaves: a decoding that throws
\* leaves the module failed, else the tree is on the screen and the pending
\* references it met have their handles
RenderLeaves(st, root, tree, leaves) ==
  LET roots == IF root > st.screen.roots THEN root ELSE st.screen.roots
  IN IF \E i \in 1..Len(leaves) : leaves[i].t = "TypeError"
     THEN [st EXCEPT !.reactRoot = root, !.screen.roots = roots,
                     !.failed = TRUE]
     ELSE [st EXCEPT !.reactRoot = root,
                     !.promiseCache = WithPromises(st.promiseCache, leaves, 1),
                     !.screen = [@ EXCEPT !.roots = roots,
                                          !.renders = @ + 1,
                                          !.tree = tree,
                                          !.renderedInto = root]]

\* reactRoot.render(tree) with the root root
RenderTree(st, root, tree) == RenderLeaves(st, root, tree, Leaves(tree))

\* render() when flightToReact does not return: the root is there, the
\* RangeError of the exhausted call stack leaves render() before the render
Overflowed(st, root) ==
  [st EXCEPT !.reactRoot = root,
             !.screen.roots = IF root > @ THEN root ELSE @,
             !.failed = TRUE]

\* render() on the state st of the module; the document has the element #root
Render(st, components) ==
  IF ~HasRow(st.rowCache, 0) THEN st
  ELSE IF Outcome(st.rowCache[0], st.rowCache, components, {}) = "overflows"
  THEN Overflowed(st, RootOf(st))
  ELSE RenderTree(st, RootOf(st),
                  FlightToReact(st.rowCache[0], st.rowCache, components))

\* a stream loop that does not render after an insertion
AfterInsertNoRender(st, components, renderEach) == st

\* what follows rowCache.set: render() in the stream loop, nothing in
\* processFlightData
AfterInsert(st, components, renderEach) ==
  IF renderEach THEN Render(st, components) ELSE st

\* the loop over the lines: a line that is not blank is parsed, its row is
\* put into the cache; a throw ends the loop and leaves the module failed
RECURSIVE InsertRows(_, _, _, _), InsertRow(_, _, _, _, _)
InsertRows(lines, st, components, renderEach) ==
  IF lines = <<>> \/ st.failed THEN st
  ELSE IF Trim(Head(lines)) = <<>>
  THEN InsertRows(Tail(lines), st, components, renderEach)
  ELSE InsertRow(ParseFlightRow(Head(lines)), Tail(lines), st, components, renderEach)

\* the turn of the loop for a line parsed as row, and the turns after it
InsertRow(row, lines, st, components, renderEach) ==
  IF row.kind = "throw" THEN [st EXCEPT !.failed = TRUE]
  ELSE IF row.kind = "null"
  THEN InsertRows(lines, st, components, renderEach)
  ELSE InsertRows(lines,
                  AfterInsert([st EXCEPT !.rowCache = (row.id :> row.value) @@ @],
                              components, renderEach),
                  components, renderEach)

\* the render() at the end of processFlightData, which a throw in the loop
\* does not reach
RenderUnlessFailed(st, components) ==
  IF st.failed THEN st ELSE Render(st, components)

\* processFlightData(flightJson)
ProcessFlightData(flightJson, st, components) ==
  RenderUnlessFailed(InsertRows(SplitOn(flightJson, "\n"), st, components, FALSE),
                     components)

\* a stream loop that forgets the incomplete line
RemainderDropped(lines) == <<>>

\* buffer = lines.pop()
Remainder(lines) == lines[Len(lines)]

\* the body of the while loop for a chunk: buffer and state after it
ReadLines(buf, chunk, st, components) ==
  LET lines == SplitOn(buf \o chunk, "\n")
  IN [buffer |-> Remainder(lines),
      st |-> InsertRows(SubSeq(lines, 1, Len(lines) - 1), st, components, TRUE)]

\* the end of the stream: the buffer is parsed as the last line
ReadLast(buf, st, components) ==
  IF Trim(buf) = <<>> THEN st ELSE InsertRows(<<buf>>, st, components, TRUE)


\* the element of the server for a client component: the placeholder has the
\* attributes data-tana-client and data-tana-props ('' when it has none)
Placeholder(moduleId, propsJson) == [client |-> moduleId, props |-> propsJson]

\* the try block of hydrateClientComponents for the i-th placeholder: the
\* component is mounted with the props parsed, or the throw of JSON.parse is
\* caught
Mounted(i, moduleId, props) ==
  IF ~props.ok THEN [placeholder |-> i, outcome |-> "failed"]
  ELSE [placeholder |-> i, outcome |-> "hydrated",
        element |-> Element([component |-> moduleId], props.value, UndefinedValue)]

\* hydrateClientComponents(): what happens to each placeholder, in document
\* order
HydrateClientComponents(placeholders, components) ==
  [i \in 1..Len(placeholders) |->
     LET moduleId == placeholders[i].client
         propsJson == IF placeholders[i].props = <<>> THEN <<"{", "}">>
                      ELSE placeholders[i].props
     IN IF moduleId = <<>> THEN [placeholder |-> i, outcome |-> "skipped"]
        ELSE IF moduleId \notin components
        THEN [placeholder |-> i, outcome |-> "missing", innerHTML |-> moduleId]
        ELSE Mounted(i, moduleId, JSONParse(propsJson))]

\* a detection that never finds the HTML-first mode
HtmlFirstNever(doc) == FALSE

\* embeddedData && rootEl && rootEl.children.length > 0
HtmlFirst(doc) == doc.island /\ doc.rootChildren > 0

\* the state of the module as the record the operators work on
ModuleState ==
  [rowCache |-> rowCache, promiseCache |-> promiseCache, reactRoot |-> reactRoot,
   screen |-> screen, failed |-> FALSE]

\* the variables of the module take the state st
Becomes(st) ==
  /\ rowCache' = st.rowCache
  /\ promiseCache' = st.promiseCache
  /\ reactRoot' = st.reactRoot
  /\ screen' = st.screen

\* the module takes the state st, and loadPage goes on at next unless st is
\* the state of a throw
Ends(st, next) ==
  /\ Becomes(st)
  /\ lp' = IF st.failed THEN "failed" ELSE next

\* a turn r of the while loop: the buffer it leaves and the state after it
Turn(r) ==
  /\ buffer' = r.buffer
  /\ Ends(r.st, "reading")


(***************************************************************************)
(* The inputs of the hydration module: the Flight text the server sends,   *)
(* the document and the registered client components.                      *)
(***************************************************************************)
Digits == <<"0", "1", "2", "3", "4", "5", "6", "7", "8", "9">>

\* the decimal text of a natural number
RECURSIVE NumberChars(_)
NumberChars(n) ==
  IF n < 10 THEN << Digits[n + 1] >>
  ELSE NumberChars(n \div 10) \o << Digits[(n % 10) + 1] >>

\* JSON.stringify of the server: the text of a value
RECURSIVE Stringify(_), StringifyItems(_), StringifyEntries(_)
Stringify(value) ==
  IF value.t = "null" THEN <<"n", "u", "l", "l">>
  ELSE IF value.t = "number" THEN NumberChars(value.v)
  ELSE IF value.t = "string" THEN <<"\"">> \o value.v \o <<"\"">>
  ELSE IF value.t = "array" THEN <<"[">> \o StringifyItems(value.items) \o <<"]">>
  ELSE <<"{">> \o StringifyEntries(value.entries) \o <<"}">>

StringifyItems(items) ==
  IF items = <<>> THEN <<>>
  ELSE IF Len(items) = 1 THEN Stringify(items[1])
  ELSE Stringify(items[1]) \o <<",">> \o StringifyItems(Tail(items))

StringifyEntries(entries) ==
  IF entries = <<>> THEN <<>>
  ELSE <<"\"">> \o entries[1].k \o <<"\"", ":">> \o Stringify(entries[1].v)
       \o (IF Len(entries) = 1 THEN <<>> ELSE <<",">> \o StringifyEntries(Tail(entries)))

\* the line of a row of the Flight text
RowText(id, value) == NumberChars(id) \o <<":">> \o Stringify(value)

\* a reference to the row id
Lazy(id) == Str(FLIGHT_LAZY \o NumberChars(id))

Pending(id) == Str(FLIGHT_PROMISE \o NumberChars(id))

\* ["$", type, key, props]
FlightElement(type, key, props) == Arr(<< Str(FLIGHT_ELEMENT), Str(type), key, props >>)

\* the moduleIds of the client components of the model
ModuleIds == { <<"m">> }

\* a client component without key and props: ["$", "$C<moduleId>"]
ClientElement(moduleId) == Arr(<< Str(FLIGHT_ELEMENT), Str(FLIGHT_CLIENT_REF \o moduleId) >>)

\* the values of the rows 0 of the model: a lazy and a pending reference to
\* row 1, and an element whose children are a client component and a lazy
\* reference to row 1
RefsRow == Arr(<< Lazy(1), Pending(1) >>)

PageRow ==
  FlightElement(<<"p">>, Null,
                Obj(<< [k |-> ChildrenName,
                        v |-> Arr(<< ClientElement(<<"m">>), Lazy(1) >>)] >>))

\* the lines of the responses with trees: the two rows 0 and a row 1
TreeLines ==
  { RowText(0, RefsRow), RowText(0, PageRow), RowText(1, Str(<<"a">>)) }

\* the lines of the responses with lines that are no rows: a row 0, a row 1,
\* a row whose value is no JSON, a line without a colon and a blank line
PlainLines ==
  { RowText(0, Num(1)), RowText(1, Num(2)), <<"1", ":", "{">>, <<"x">>, <<>> }

\* lines.join('\n')
RECURSIVE Join(_)
Join(lines) ==
  IF lines = <<>> THEN <<>>
  ELSE IF Len(lines) = 1 THEN lines[1]
  ELSE lines[1] \o <<"\n">> \o Join(Tail(lines))

\* the Flight texts of at most MaxRows lines of a set, the last line ended
\* or not
PayloadsOf(lines) ==
  { Join(seq) \o end :
      seq \in UNION { [1..n -> lines] : n \in 0..MaxRows },
      end \in { <<>>, <<"\n">> } }

Payloads == PayloadsOf(TreeLines) \cup PayloadsOf(PlainLines)

\* the chunks the stream can deliver after the text sent
Chunks(sent) ==
  UNION { { SubSeq(p, Len(sent) + 1, m) : m \in (Len(sent) + 1)..Len(p) } :
            p \in { q \in Payloads : StartsWith(q, sent) } }

\* the placeholders of a server-rendered page
PlaceholderLists ==
  { <<>>,
    << Placeholder(<<"m">>, <<>>) >>,
    << Placeholder(<<"m">>, <<"{">>), Placeholder(<<"m">>, <<"{", "}">>) >>,
    << Placeholder(<<>>, <<>>), Placeholder(<<"m">>, <<"n", "u", "l", "l">>) >> }

\* the documents the module is loaded in: every document has the element
\* #root; a page without the data island whose fetch gives a response, a
\* populated page without the island whose fetch fails, a page with the
\* island and an empty #root, a server-rendered page with the island
Documents ==
  { [pathname |-> "/", island |-> FALSE, flightData |-> <<>>,
     rootChildren |-> 0, placeholders |-> <<>>],
    [pathname |-> "/p", island |-> FALSE, flightData |-> <<>>,
     rootChildren |-> 1, placeholders |-> << Placeholder(<<"m">>, <<>>) >>] }
  \cup { [pathname |-> "/", island |-> TRUE, flightData |-> text,
          rootChildren |-> 0, placeholders |-> <<>>] : text \in Payloads }
  \cup { [pathname |-> "/", island |-> TRUE, flightData |-> text,
          rootChildren |-> 1, placeholders |-> list] :
            text \in { <<>>, RowText(0, Lazy(1)) }, list \in PlaceholderLists }

(***************************************************************************)
(* The state machine of the hydration module: loadPage runs once, detects  *)
(* the mode and, in the streamed mode, reads the response chunk by chunk.  *)
(***************************************************************************)
InitHydrate ==
  /\ fs = <<>>
  /\ PluginIdle
  /\ modules = <<>>
  /\ structure = [pages |-> <<>>, apiGet |-> <<>>, apiPost |-> <<>>,
                  init |-> Unset, contract |-> Unset]
  /\ contract = NoContract
  /\ pc = "start"
  /\ request = NoRequest
  /\ response = NoResponse
  /\ clientComponents \in SUBSET ModuleIds
  /\ document \in Documents
  /\ body \in { [ok |-> ok, sent |-> <<>>, resumed |-> FALSE] : ok \in BOOLEAN }
  /\ body.ok = (document.pathname = "/")
  /\ ~document.island => clientComponents = {}
  /\ buffer = <<>>
  /\ rowCache = <<>>
  /\ promiseCache = <<>>
  /\ reactRoot = 0
  /\ screen = [roots |-> 0, renders |-> 0, tree |-> [t |-> "none"],
               renderedInto |-> 0, mounts |-> <<>>, fetches |-> <<>>]
  /\ lp = "start"

\* loadPage() up to its first await: the HTML-first mode hydrates the
\* placeholders, the Flight-only mode processes the island, else the current
\* path is fetched
LoadPage ==
  /\ lp = "start"
  /\ IF HtmlFirst(document)
     THEN /\ screen' = [screen EXCEPT !.mounts =
                          HydrateClientComponents(document.placeholders, clientComponents)]
          /\ lp' = "done"
          /\ UNCHANGED <<rowCache, promiseCache, reactRoot>>
     ELSE IF document.island
     THEN Ends(ProcessFlightData(document.flightData, ModuleState, clientComponents),
               "done")
     ELSE /\ screen' = [screen EXCEPT !.fetches = Append(@, document.pathname)]
          /\ lp' = "fetching"
          /\ UNCHANGED <<rowCache, promiseCache, reactRoot>>
  /\ UNCHANGED <<pluginVars, generatorVars, clientComponents, document, body, buffer>>

\* the fetch resolves: a response that is not ok ends loadPage, else the
\* reader of the body is taken
FetchResolves ==
  /\ lp = "fetching"
  /\ lp' = IF body.ok THEN "reading" ELSE "done"
  /\ buffer' = <<>>
  /\ UNCHANGED <<pluginVars, generatorVars, clientComponents, document, body, rowCache,
                 promiseCache, reactRoot, screen>>

\* reader.read() resolves with a chunk: one turn of the while loop; the body
\* records the text sent and whether a chunk has resumed a line that the
\* chunk before it left incomplete
ReadChunk ==
  /\ lp = "reading"
  /\ \E chunk \in Chunks(body.sent) :
       /\ body' = [body EXCEPT !.sent = @ \o chunk,
                               !.resumed = @ \/ buffer # <<>>]
       /\ Turn(ReadLines(buffer, chunk, ModuleState, clientComponents))
  /\ UNCHANGED <<pluginVars, generatorVars, clientComponents, document>>

\* reader.read() resolves with done: the rest of the buffer is the last line
StreamEnds ==
  /\ lp = "reading"
  /\ body.sent \in Payloads
  /\ Ends(ReadLast(buffer, ModuleState, clientComponents), "done")
  /\ UNCHANGED <<pluginVars, generatorVars, clientComponents, document, body, buffer>>

NextHydrate ==
  \/ LoadPage
  \/ FetchResolves
  \/ ReadChunk
  \/ StreamEnds

\* hydration: every document, every response and every way to cut it
SpecHydrate == InitHydrate /\ [][NextHydrate]_vars


\* the moduleId of a client component: its path from the project root without
\* the extension, the separators replaced by underscores
ModuleIdOf ==
  (Counter :> "components_Counter") @@ (Toggle :> "components_Toggle")

\* the client components a page imports
ClientImportsOf(file) ==
  { modules[file].imports[i] : i \in 1..Len(modules[file].imports) }
    \cap { c \in DOMAIN modules : modules[c].directive = "use client" }

\* C11: when a page source imports a file that is a known client component,
\* the bundled page unit never contains that file's body, and in place of the
\* import it holds a reference object that carries the component's moduleId.
C11_ClientImportsReferenced ==
  contract.written =>
    \A i \in 1..Len(structure.pages) :
      \A c \in ClientImportsOf(structure.pages[i].filePath) :
        LET code == contract.units[i].code
        IN /\ \A j \in 1..Len(code) :
                \A d \in 1..Len(modules[c].decls) : code[j] # modules[c].decls[d]
           /\ \E j \in 1..Len(code) :
                code[j] = Stmt("clientReference", ModuleIdOf[c])

\* the response of the fetch is being read or has been read
Streamed == screen.fetches # <<>> /\ body.ok /\ lp \in {"reading", "done", "failed"}

\* the state of the module when it is loaded
FreshModule ==
  [rowCache |-> <<>>, promiseCache |-> <<>>, reactRoot |-> 0,
   screen |-> [roots |-> 0, renders |-> 0, tree |-> [t |-> "none"],
               renderedInto |-> 0, mounts |-> <<>>, fetches |-> <<>>],
   failed |-> FALSE]

\* the module after the text sent has been delivered as one chunk
WholeDelivery ==
  LET one == ReadLines(<<>>, body.sent, FreshModule, clientComponents)
  IN ReadLast(one.buffer, one.st, clientComponents)

\* C12: in the streamed mode, however the response is cut into chunks, also
\* in the middle of a row, the row cache at the end of the stream is the row
\* cache that the delivery of the whole response as one chunk gives.
C12_ChunkingKeepsCache ==
  (Streamed /\ lp = "done") => rowCache = WholeDelivery.rowCache

\* a response of two rows has been read to its end, and a chunk has resumed
\* a line that the chunk before it had left incomplete
C12_Witness ==
  /\ Streamed /\ lp = "done"
  /\ body.resumed
  /\ DOMAIN rowCache = {0, 1}

\* C13: whatever rows are inserted during a page load, the root of #root is
\* created at most once, and every render uses that root.
C13_RootCreatedOnce ==
  /\ screen.roots <= 1
  /\ screen.renders > 0 => (reactRoot = 1 /\ screen.renderedInto = 1)

\* the same row 0 has been delivered twice and rendered twice into one root
C13_Witness ==
  /\ Streamed /\ lp = "done"
  /\ body.sent = RowText(0, RefsRow) \o <<"\n">> \o RowText(0, RefsRow)
  /\ screen.renders = 2
  /\ screen.roots = 1

\* the lines of the text sent that are complete
CompleteLines ==
  LET lines == SplitOn(body.sent, "\n")
  IN IF lp = "done" THEN lines ELSE SubSeq(lines, 1, Len(lines) - 1)

\* the number of the rows among the first n complete lines
RECURSIVE RowsUpTo(_)
RowsUpTo(n) ==
  IF n = 0 THEN 0
  ELSE RowsUpTo(n - 1) + (IF ParseFlightRow(CompleteLines[n]).kind = "row" THEN 1 ELSE 0)

\* the complete lines that are row 0
RootLines ==
  { n \in 1..Len(CompleteLines) :
      LET row == ParseFlightRow(CompleteLines[n])
      IN row.kind = "row" /\ row.id = 0 }

\* the number of the rows inserted from the first row 0 on
InsertionsFromRoot ==
  IF RootLines = {} THEN 0
  ELSE LET first == CHOOSE n \in RootLines : \A m \in RootLines : n <= m
       IN RowsUpTo(Len(CompleteLines)) - RowsUpTo(first - 1)

\* C14: in the streamed mode nothing is rendered while the cache has no row
\* 0; once it has, every row inserted is followed by a render, and the tree
\* on the screen is the decode of row 0 against the rows cached so far, at
\* the end of the stream against all rows of the response.
C14_RenderFollowsRows ==
  Streamed =>
    /\ 0 \notin DOMAIN rowCache =>
         (screen.renders = 0 /\ screen.tree = [t |-> "none"])
    /\ 0 \in DOMAIN rowCache =>
         screen.tree = FlightToReact(rowCache[0], rowCache, clientComponents)
    /\ lp # "failed" => screen.renders = InsertionsFromRoot

\* row 1 has arrived after row 0 and the stream has ended: two renders, and
\* the screen shows the text of row 1 where row 0 refers to it
C14_Witness ==
  /\ Streamed /\ lp = "done"
  /\ body.sent = RowText(0, RefsRow) \o <<"\n">> \o RowText(1, Str(<<"a">>))
  /\ screen.renders = 2
  /\ screen.tree.t = "array" /\ screen.tree.items[1] = Str(<<"a">>)

\* C15: a step of a page load never removes an id from the row cache and
\* never changes the value cached for an id.
C15_CacheAppendOnly ==
  [][\A id \in DOMAIN rowCache :
       id \in DOMAIN rowCache' /\ rowCache'[id] = rowCache[id]]_vars

\* the node shown for a lazy reference to row 1
LazyShown(node) ==
  IF 1 \in DOMAIN rowCache
  THEN node = FlightToReact(rowCache[1], rowCache, clientComponents)
  ELSE node = Element([host |-> <<"d", "i", "v">>],
                      << [k |-> <<"className">>, v |-> Str(<<"loading">>)] >>,
                      Str(<<"Loading...">>))

\* C16: where row 0 has a lazy reference to row 1, the screen shows the
\* loading placeholder while row 1 is missing and the decode of row 1 from
\* the render that follows its insertion on, and the page load never fails
\* because the row is missing.
C16_LazyReferenceResolved ==
  /\ (0 \in DOMAIN rowCache /\ rowCache[0] = RefsRow) =>
       /\ lp # "failed"
       /\ screen.tree.t = "array"
       /\ LazyShown(screen.tree.items[1])
  /\ (0 \in DOMAIN rowCache /\ rowCache[0] = PageRow) =>
       /\ lp # "failed"
       /\ screen.tree.t = "element"
       /\ LazyShown(screen.tree.children.items[2])

\* the stream has ended without row 1 and the placeholder is on the screen
C16_WitnessLoading ==
  /\ Streamed /\ lp = "done"
  /\ DOMAIN rowCache = {0} /\ rowCache[0] = RefsRow
  /\ screen.tree.items[1].t = "element"
  /\ screen.tree.items[1].children = Str(<<"Loading...">>)

\* row 1 has arrived in a later chunk than row 0 and its text has replaced
\* the placeholder
C16_Witness ==
  /\ Streamed /\ lp = "done"
  /\ DOMAIN rowCache = {0, 1} /\ rowCache[0] = PageRow
  /\ body.sent = RowText(0, PageRow) \o <<"\n">> \o RowText(1, Str(<<"a">>))
  /\ screen.renders = 2
  /\ screen.tree.children.items[2] = Str(<<"a">>)

\* C17: a pending reference to an id has one handle, created at its first
\* decode and kept from then on, and the handle is resolved by the step that
\* inserts the row with that id.
C17_PromiseResolvedByRow ==
  [][\A id \in DOMAIN promiseCache :
       /\ id \in DOMAIN promiseCache'
       /\ promiseCache'[id].serial = promiseCache[id].serial
       /\ (id \notin DOMAIN rowCache /\ id \in DOMAIN rowCache') =>
            promiseCache'[id].state = "resolved"]_vars

\* the error node for the client component m without a key
MissingNode ==
  [t |-> "element", type |-> [host |-> <<"d", "i", "v">>],
   props |-> << [k |-> <<"k", "e", "y">>, v |-> [t |-> "undefined"]],
                [k |-> <<"style">>,
                 v |-> Obj(<< [k |-> <<"color">>, v |-> Str(<<"red">>)] >>)] >>,
   children |-> Str(<<"Missing: ", "m">>)]

\* C18: where row 0 is an element with a client component that is not
\* registered among its children, the page load does not fail, and the
\* screen shows the element with an error node that names the moduleId in
\* the place of the component and with its other child decoded.
C18_MissingComponentShown ==
  (/\ 0 \in DOMAIN rowCache /\ rowCache[0] = PageRow
   /\ <<"m">> \notin clientComponents) =>
    /\ lp # "failed"
    /\ screen.tree.t = "element"
    /\ screen.tree.type = [host |-> <<"p">>]
    /\ screen.tree.children.t = "array"
    /\ Len(screen.tree.children.items) = 2
    /\ screen.tree.children.items[1] = MissingNode
    /\ LazyShown(screen.tree.children.items[2])

\* the response with the unregistered component and the row its sibling
\* refers to has been read to its end
C18_Witness ==
  /\ Streamed /\ lp = "done"
  /\ clientComponents = {}
  /\ DOMAIN rowCache = {0, 1} /\ rowCache[0] = PageRow
  /\ screen.tree.children.items[1] = MissingNode
  /\ screen.tree.children.items[2] = Str(<<"a">>)

\* C19: in the streamed mode a line whose value is no JSON does not end the
\* page load, and every row among the complete lines received is cached and
\* the tree of row 0 rendered against the cache.
C19_MalformedRowSkipped ==
  Streamed =>
    /\ lp # "failed"
    /\ \A n \in 1..Len(CompleteLines) :
         LET row == ParseFlightRow(CompleteLines[n])
         IN row.kind = "row" => row.id \in DOMAIN rowCache
    /\ 0 \in DOMAIN rowCache =>
         screen.tree = FlightToReact(rowCache[0], rowCache, clientComponents)

PagePath == IF request.req.path = <<>> THEN <<"/">> ELSE request.req.path

\* the entries of the page catalog that match the path looked up
MatchingPages ==
  { i \in 1..Len(structure.pages) : RouteMatches(structure.pages[i], PagePath) }

\* C28: Page renders the component of the first entry of the catalog that
\* matches the path, be it static or dynamic, and so never the component of
\* a later entry that matches too.
C28_FirstMatchWins ==
  Answered("Page") =>
    \A i \in MatchingPages :
      (\A j \in MatchingPages : i <= j) =>
        /\ response.outcome = "returned"
        /\ response.value.t = "jsx"
        /\ response.value.type = AliasName("page", i - 1)

\* the path /p is matched by the dynamic entry /:i listed first and by the
\* static entry /p listed second, and the dynamic entry is rendered
C28_Witness ==
  /\ Answered("Page")
  /\ request.req.path = <<"/", "p">>
  /\ Len(structure.pages) = 2
  /\ structure.pages[1].routePath = <<"/", ":", "i">>
  /\ structure.pages[2].routePath = <<"/", "p">>
  /\ MatchingPages = {1, 2}
  /\ response.value = Jsx(AliasName("page", 0),
                          [request |-> request.req,
                           params |-> (<<"i">> :> <<"p">>)])

\* the names the functions of a code text refer to
ReferredNames(code) ==
  UNION { IF code[i].k = "function" THEN code[i].refs ELSE {} : i \in 1..Len(code) }

\* the names a sequence of names holds
NamesOf(names) == { names[i] : i \in 1..Len(names) }

\* C29: in the code of every unit of the contract, the names the functions
\* refer to are declared by the unit, so a call of the entry point by its
\* own name reaches the renamed declaration; and a page unit declares the
\* names its source declares, but for the name of the entry point.
C29_RenameKeepsReferences ==
  contract.written =>
    /\ \A u \in 1..Len(contract.units) :
         ReferredNames(contract.units[u].code)
           \subseteq NamesOf(DeclaredNames(contract.units[u].code))
    /\ \A i \in 1..Len(structure.pages) :
         LET source == fs[structure.pages[i].filePath]
             unit == contract.units[i]
         IN \A n \in NamesOf(DeclaredNames(StripImports(source))) :
              n \in NamesOf(DeclaredNames(unit.code))
                \/ (n \notin NamesOf(DeclaredNames(unit.code))
                    /\ unit.componentName \in NamesOf(DeclaredNames(unit.code))
                    /\ Cardinality(NamesOf(DeclaredNames(unit.code)))
                         = Cardinality(NamesOf(DeclaredNames(StripImports(source)))))


(***************************************************************************)
(* The rebuilds of the dev server (src/src/index.ts): handleHotUpdate      *)
(* calls rebuildUnifiedContract for every change of a source file and does *)
(* not wait for it.  A rebuild scans the project within the call, then     *)
(* waits for the builds of esbuild, which read the files as they are then, *)
(* and writes contract.js when the last build has resolved.                *)
(***************************************************************************)
\* the files the changes of the model touch
RebuildFiles == { File("app", <<>>, "page.tsx"), File("api", <<>>, "get.ts") }

\* the contents a file is saved with: two sources and one esbuild rejects
Versions ==
  { PlainSource,
    << FunctionStmt("Home", {}), Stmt("exportAs", "Home") >>,
    << Stmt("invalid", "") >> }

\* rebuildUnifiedContract up to its second await: the scan is stored in
\* projectStructure and generateContract waits for its builds
Started(scan) == [pc |-> "bundling", structure |-> scan, out |-> NoContract]

\* the rebuild after its builds: generateContract goes on to the write, or
\* the rejection of a build is caught and logged
AfterBuilds(cycle, out) ==
  [cycle EXCEPT !.pc = IF out.written THEN "bundled" ELSE "failed", !.out = out]

\* a rebuild that writes whatever its builds have left
ReachesWriteAlways(cycle) == cycle.pc \in {"bundled", "failed"}

\* fs.writeFileSync(contractPath, code) is reached when no build has rejected
ReachesWrite(cycle) == cycle.pc = "bundled"

InitRebuild ==
  InitWith(UNION { [F -> Versions] : F \in SUBSET RebuildFiles })

\* a source file is saved, and handleHotUpdate starts a rebuild
HandleHotUpdate ==
  /\ Len(cycles) < MaxCycles
  /\ \E f \in RebuildFiles, v \in Versions :
       /\ fs' = (f :> v) @@ fs
       /\ fs' # fs
  /\ \E scan \in ScanProject(DOMAIN fs') :
       /\ structure' = scan
       /\ cycles' = Append(cycles, Started(scan))
  /\ UNCHANGED <<contract, pc, request, response, modules, clientVars, build, manifest, devVars>>

\* the builds of a rebuild resolve or one of them rejects
BuildsSettle ==
  /\ \E c \in 1..Len(cycles) :
       /\ cycles[c].pc = "bundling"
       /\ cycles' = [cycles EXCEPT
                       ![c] = AfterBuilds(@, GenerateContract(cycles[c].structure, fs))]
  /\ UNCHANGED <<fs, structure, contract, pc, request, response, modules,
                 clientVars, build, manifest, devVars>>

\* generateContract writes contract.js and the rebuild ends
WriteContract ==
  /\ \E c \in 1..Len(cycles) :
       /\ ReachesWrite(cycles[c])
       /\ contract' = cycles[c].out
       /\ cycles' = [cycles EXCEPT ![c].pc = "done"]
  /\ UNCHANGED <<fs, structure, pc, request, response, modules, clientVars,
                 build, manifest, devVars>>

NextRebuild ==
  \/ HandleHotUpdate
  \/ BuildsSettle
  \/ WriteContract

\* the dev server: file changes and the rebuilds they start
SpecRebuild == InitRebuild /\ [][NextRebuild]_vars

\* the rebuilds in flight
InFlight == { c \in 1..Len(cycles) : cycles[c].pc \in {"bundling", "bundled"} }

\* C22: at most one rebuild is in flight at any time.
C22_CyclesSerialized == Cardinality(InFlight) <= 1

\* C23: contract.js is nothing or the whole output of a rebuild all of whose
\* units were bundled, and once a rebuild has written it a rebuild that
\* fails leaves a written contract in place: a failed rebuild writes nothing.
C23_WriteAfterAllBundled ==
  /\ contract # NoContract =>
       /\ \E c \in 1..Len(cycles) : cycles[c].pc = "done" /\ contract = cycles[c].out
       /\ contract.written
       /\ \A u \in 1..Len(contract.units) : contract.units[u].ok
  /\ (\E c \in 1..Len(cycles) : cycles[c].pc = "done") => contract.written
  /\ \A c \in 1..Len(cycles) : cycles[c].pc = "failed" => ~cycles[c].out.written

\* the second rebuild has failed after the first one wrote contract.js,
\* and the contract of the first is in place
C23_Witness ==
  /\ Len(cycles) = 2
  /\ cycles[1].pc = "done"
  /\ cycles[2].pc = "failed"
  /\ \E f \in DOMAIN fs : fs[f] = << Stmt("invalid", "") >>
  /\ contract.written
  /\ contract = cycles[1].out

\* C30: when every rebuild has ended and the one triggered last has written
\* its output, contract.js holds that output.
C30_LatestCycleWins ==
  (/\ cycles # <<>>
   /\ InFlight = {}
   /\ cycles[Len(cycles)].pc = "done") =>
    contract = cycles[Len(cycles)].out


(***************************************************************************)
(* Determinism of the scan: what two runs of scanProject on the same       *)
(* directory tree can differ in.                                           *)
(***************************************************************************)
\* what a catalog entry says of its route: path, kind and parameters
EntryOf(route) ==
  [routePath |-> route.routePath, type |-> route.type, params |-> route.params]

\* the number of entries of a list that say e
CountOf(routes, e) ==
  Cardinality({ i \in 1..Len(routes) : EntryOf(routes[i]) = e })

\* two lists hold the same entries, each as often as the other
SameEntries(a, b) ==
  /\ Len(a) = Len(b)
  /\ \A i \in 1..Len(a) : CountOf(a, EntryOf(a[i])) = CountOf(b, EntryOf(a[i]))

\* C26: once the files on disk are scanned, every catalog a further run of
\* scanProject can return holds the same entries (route path, kind, parameter list) in
\* its page, GET and POST lists as the catalog of the run that was made
C26_ScanDeterministic ==
  pc = "scanned" =>
    \A again \in ScanProject(Files) :
      /\ SameEntries(structure.pages, again.pages)
      /\ SameEntries(structure.apiGet, again.apiGet)
      /\ SameEntries(structure.apiPost, again.apiPost)

\* a scan of a directory whose entries can be listed in two orders, with a
\* dynamic route among them
C26_Witness ==
  /\ pc = "scanned"
  /\ Cardinality(ScanProject(Files)) > 1
  /\ Len(structure.pages) = 2
  /\ \E i \in 1..2 : structure.pages[i].params # <<>>


(***************************************************************************)
(* The route manifest of routes.ts.  scanRoutes walks app/ and pushes one  *)
(* route per directory that holds a page, a GET or a POST handler, with    *)
(* the layouts it has collected on the way down.  A route is               *)
(* [path, component, get, post, layouts]; a handler that is not set is     *)
(* NoFile, and layouts is <<>> where the code leaves the field out.        *)
(***************************************************************************)
NoFile == File("", <<>>, "")

\* let pageComponent, getHandler, postHandler, layoutComponent
NoHandlers == [component |-> NoFile, get |-> NoFile, post |-> NoFile,
               layout |-> NoFile]

\* the else branch of the loop of scanDir: a file entry sets its variable
RouteFileSeen(found, dir, fileName) ==
  IF fileName \in {"page.tsx", "page.jsx"}
  THEN [found EXCEPT !.component = File("app", dir, fileName)]
  ELSE IF fileName \in {"get.ts", "get.tsx"}
  THEN [found EXCEPT !.get = File("app", dir, fileName)]
  ELSE IF fileName \in {"post.ts", "post.tsx"}
  THEN [found EXCEPT !.post = File("app", dir, fileName)]
  ELSE IF fileName \in {"layout.tsx", "layout.jsx"}
  THEN [found EXCEPT !.layout = File("app", dir, fileName)]
  ELSE found

\* layoutComponent ? [...layouts, layoutComponent] : layouts, with the
\* layoutComponent of the moment it is evaluated
LayoutChain(layouts, found) ==
  IF found.layout # NoFile THEN Append(layouts, found.layout) ELSE layouts

\* `${prefix}/:${param}` for a [param] directory, `${prefix}/${name}` else
ChildPrefix(prefix, name) ==
  IF StartsWith(Chars[name], <<"[">>) /\ EndsWith(Chars[name], <<"]">>)
  THEN prefix \o <<"/", ":">> \o SubSeq(Chars[name], 2, Len(Chars[name]) - 1)
  ELSE prefix \o <<"/">> \o Chars[name]

\* what scanDir pushes after its loop: a route if a handler was found
PushedRoute(prefix, layouts, found) ==
  IF found.component # NoFile \/ found.get # NoFile \/ found.post # NoFile
  THEN << [path |-> IF prefix = <<>> THEN <<"/">> ELSE prefix,
           component |-> found.component,
           get |-> found.get,
           post |-> found.post,
           layouts |-> LayoutChain(layouts, found)] >>
  ELSE <<>>

\* scanDir of routes.ts: the routes it can push, one list for every order
\* in which the entries of each directory can be listed
RECURSIVE RoutesScanDir(_, _, _, _), RoutesScanEntries(_, _, _, _, _, _, _)
RoutesScanDir(files, dir, prefix, layouts) ==
  UNION { RoutesScanEntries(files, dir, prefix, layouts, o, 1, NoHandlers) :
            o \in Orders(SubDirs(files, "app", dir) \cup FilesIn(files, "app", dir)) }

\* the loop of scanDir from the i-th entry on, then the push
RoutesScanEntries(files, dir, prefix, layouts, entries, i, found) ==
  IF i > Len(entries) THEN { PushedRoute(prefix, layouts, found) }
  ELSE IF entries[i] \in SubDirs(files, "app", dir)
  THEN IF entries[i] \in SkippedDirs
       THEN RoutesScanEntries(files, dir, prefix, layouts, entries, i + 1, found)
       ELSE { below \o rest :
                below \in RoutesScanDir(files, Append(dir, entries[i]),
                                        ChildPrefix(prefix, entries[i]),
                                        LayoutChain(layouts, found)),
                rest \in RoutesScanEntries(files, dir, prefix, layouts,
                                           entries, i + 1, found) }
  ELSE RoutesScanEntries(files, dir, prefix, layouts, entries, i + 1,
                         RouteFileSeen(found, dir, entries[i]))

\* scanRoutes(root): the routes of every manifest it can return
ScanRoutes(files) ==
  IF DirExists(files, "app", <<>>)
  THEN RoutesScanDir(files, <<>>, <<>>, <<>>)
  ELSE { <<>> }

\* the files of the projects of the manifest specification
ManifestFiles ==
  { File("app", <<>>, "layout.tsx"), File("app", <<>>, "page.tsx"),
    File("app", <<>>, "get.ts"), File("app", <<"p">>, "layout.tsx"),
    File("app", <<"p">>, "page.tsx"), File("app", <<"p">>, "post.ts"),
    File("app", <<"p", "[i]">>, "page.tsx"), File("app", <<"lib">>, "page.tsx") }

InitRoutes == InitWith({ [f \in F |-> PlainSource] : F \in SUBSET ManifestFiles })

\* the plugin calls scanRoutes(root)
ScanRoutesStep ==
  /\ pc = "start"
  /\ manifest' \in ScanRoutes(Files)
  /\ pc' = "routes"
  /\ UNCHANGED <<fs, structure, contract, request, response, modules>>
  /\ UNCHANGED <<clientVars, cycles, build, devVars>>

NextRoutes == ScanRoutesStep

\* the route manifest: every tree over the files of the model
SpecRoutes == InitRoutes /\ [][NextRoutes]_vars

\* the directory a route of the manifest was pushed for
RouteDir(route) ==
  IF route.component # NoFile THEN route.component.dir
  ELSE IF route.get # NoFile THEN route.get.dir
  ELSE route.post.dir

\* the layout files of the directories from app/ down to dir, root first
RECURSIVE LayoutsDownTo(_, _, _)
LayoutsDownTo(files, dir, depth) ==
  IF depth > Len(dir) THEN <<>>
  ELSE (IF File("app", SubSeq(dir, 1, depth), "layout.tsx") \in files
        THEN << File("app", SubSeq(dir, 1, depth), "layout.tsx") >>
        ELSE <<>>) \o LayoutsDownTo(files, dir, depth + 1)

\* C25: every route of the manifest carries the layouts of the directories
\* from app/ down to its own, root first, whatever the order in which the
\* entries of each directory were listed
C25_LayoutsThreadedDown ==
  pc = "routes" =>
    \A r \in 1..Len(manifest) :
      manifest[r].layouts = LayoutsDownTo(Files, RouteDir(manifest[r]), 0)


(***************************************************************************)
(* Client components and the generated client modules.  The scan for       *)
(* client components fills structure.clientComponents with one             *)
(* [filePath, moduleId] per file marked "use client"; the hydration module *)
(* of the dev server and the client entry of the production build import   *)
(* and register them.  A generated module is the sequence of its           *)
(* statements:                                                             *)
(*   log              the module of a project without pages                *)
(*   import           import React, import { createRoot }                  *)
(*   importComponent  import ClientComponent_i from '<path>'               *)
(*   register         window.__registerClientComponent('<n>', ...)         *)
(*   registry         const clientComponents = new Map()                   *)
(*   defineRegister   window.__registerClientComponent = (...) => {...}    *)
(*   runtime          the Flight decoder and the call of loadPage()        *)
(***************************************************************************)
\* the characters of the names of the files of the projects with a client
NameChars ==
  ("app" :> <<"a", "p", "p">>) @@ ("src" :> <<"s", "r", "c">>)
    @@ ("a" :> <<"a">>)
    @@ ("page.tsx" :> <<"p", "a", "g", "e", ".", "t", "s", "x">>)
    @@ ("client.tsx" :> <<"c", "l", "i", "e", "n", "t", ".", "t", "s", "x">>)
    @@ ("b.tsx" :> <<"b", ".", "t", "s", "x">>)
    @@ ("b.jsx" :> <<"b", ".", "j", "s", "x">>)
    @@ ("a_b.tsx" :> <<"a", "_", "b", ".", "t", "s", "x">>)
    @@ ("api" :> <<"a", "p", "i">>)
    @@ ("get.ts" :> <<"g", "e", "t", ".", "t", "s">>)
    @@ ("blockchain" :> <<"b", "l", "o", "c", "k", "c", "h", "a", "i", "n">>)
    @@ ("contract.js" :> <<"c", "o", "n", "t", "r", "a", "c", "t", ".", "j", "s">>)

\* the directories of a path, each followed by the separator
RECURSIVE DirsText(_)
DirsText(dir) ==
  IF dir = <<>> THEN <<>>
  ELSE NameChars[Head(dir)] \o <<"/">> \o DirsText(Tail(dir))

\* the path of a file relative to the project root
RelativePath(file) ==
  NameChars[file.top] \o <<"/">> \o DirsText(file.dir) \o NameChars[file.name]

\* the index of the last occurrence of a character from i down, 0 if none
RECURSIVE LastIndexOf(_, _, _)
LastIndexOf(s, ch, i) ==
  IF i = 0 THEN 0
  ELSE IF s[i] = ch THEN i
  ELSE LastIndexOf(s, ch, i - 1)

\* the path without the extension of its file name
StripExtension(rel) ==
  IF LastIndexOf(rel, ".", Len(rel)) > LastIndexOf(rel, "/", Len(rel))
  THEN SubSeq(rel, 1, LastIndexOf(rel, ".", Len(rel)) - 1)
  ELSE rel

\* the path separators replaced by underscores
Underscored(s) == [i \in 1..Len(s) |-> IF s[i] = "/" THEN "_" ELSE s[i]]

\* generateModuleId(path, root): the relative path, the extension stripped,
\* the separators replaced by underscores
GenerateModuleId(file) == Underscored(StripExtension(RelativePath(file)))

\* the directive is one of the first 5 lines of the file
IsClientComponent(content) ==
  \E i \in 1..Len(content) : i <= 5 /\ content[i] = Stmt("directive", "use client")

\* the scan for client components: one entry per qualifying file, in any
\* order in which the files can be listed
ScanClientComponents(files) ==
  { [i \in DOMAIN o |-> [filePath |-> o[i], moduleId |-> GenerateModuleId(o[i])]] :
      o \in Orders({ f \in DOMAIN files : IsClientComponent(files[f]) }) }

\* the structure with the optional field clientComponents
WithClientComponents(st, entries) ==
  [pages |-> st.pages, apiGet |-> st.apiGet, apiPost |-> st.apiPost,
   init |-> st.init, contract |-> st.contract, clientComponents |-> entries]

\* the structures a scan of the project can give
ClientScans(files) ==
  { WithClientComponents(st, entries) :
      st \in ScanProject(DOMAIN files), entries \in ScanClientComponents(files) }

\* clientImports of generateHydrationModule: for every client component the
\* import and, in the same place, the registration call
HydrationImports(entries) ==
  [j \in 1..(2 * Len(entries)) |->
     IF j % 2 = 1 THEN Stmt("importComponent", entries[(j + 1) \div 2].moduleId)
     ELSE Stmt("register", entries[j \div 2].moduleId)]

\* generateHydrationModule(structure, root)
GenerateHydrationModule(st) ==
  IF st.pages = <<>> THEN << Stmt("log", <<>>) >>
  ELSE << Stmt("import", <<>>) >> \o HydrationImports(st.clientComponents)
         \o << Stmt("registry", <<>>), Stmt("defineRegister", <<>>),
               Stmt("runtime", <<>>) >>

\* generateClientEntryCode(structure, root): clientImports, the registry, the
\* registration function, clientRegistrations, the runtime
GenerateClientEntryCode(st) ==
  IF st.pages = <<>> THEN << Stmt("log", <<>>) >>
  ELSE << Stmt("import", <<>>) >>
         \o [i \in DOMAIN st.clientComponents |->
               Stmt("importComponent", st.clientComponents[i].moduleId)]
         \o << Stmt("registry", <<>>), Stmt("defineRegister", <<>>) >>
         \o [i \in DOMAIN st.clientComponents |->
               Stmt("register", st.clientComponents[i].moduleId)]
         \o << Stmt("runtime", <<>>) >>

\* the page before the module is evaluated: no registry, no global function
NotEvaluated == [registry |-> {}, declared |-> FALSE, defined |-> FALSE,
                 threw |-> FALSE, started |-> FALSE]

\* the evaluation of one statement of a module in the browser; the imports
\* are hoisted and bind only; a call of a global that is not a function, or
\* a function that reads the registry before its declaration, throws
Executed(stmt, ev) ==
  IF stmt.k = "registry" THEN [ev EXCEPT !.declared = TRUE]
  ELSE IF stmt.k = "defineRegister" THEN [ev EXCEPT !.defined = TRUE]
  ELSE IF stmt.k = "register"
  THEN IF ev.defined /\ ev.declared
       THEN [ev EXCEPT !.registry = @ \cup {stmt.n}]
       ELSE [ev EXCEPT !.threw = TRUE]
  ELSE IF stmt.k = "runtime" THEN [ev EXCEPT !.started = TRUE]
  ELSE ev

\* the evaluation of a module from its i-th statement on, up to a throw
RECURSIVE Evaluate(_, _, _)
Evaluate(code, i, ev) ==
  IF i > Len(code) \/ ev.threw THEN ev
  ELSE Evaluate(code, i + 1, Executed(code[i], ev))

\* the files of the projects with a client
PageFile == File("app", <<>>, "page.tsx")

UserClientEntry == File("src", <<>>, "client.tsx")

TempClientPath == File(".tana", <<>>, "client.tsx")

ComponentFiles ==
  { File("src", <<"a">>, "b.tsx"), File("src", <<"a">>, "b.jsx"),
    File("src", <<>>, "a_b.tsx"), File("src", <<>>, "b.tsx") }

\* a file marked as a client component
ClientSource ==
  << Stmt("directive", "use client"), FunctionStmt("Widget", {}),
     Stmt("exportAs", "Widget") >>

\* a page and a client entry or not, and component files marked or not
InitEntry ==
  InitWith({ own @@ comps :
               own \in UNION { [F -> {PlainSource}] :
                                 F \in SUBSET {PageFile, UserClientEntry} },
               comps \in UNION { [G -> {ClientSource, PlainSource}] :
                                   G \in SUBSET ComponentFiles } })

\* projectStructure = await scanProject(projectRoot)
ScanClientStep ==
  /\ pc = "start"
  /\ build.pc = "idle"
  /\ structure' \in ClientScans(fs)
  /\ pc' = "scanned"
  /\ UNCHANGED <<fs, contract, request, response, modules, clientVars, pluginVars>>

\* what the evaluation of a module leaves in the page
Evaluated(ev, which) ==
  /\ clientComponents' = ev.registry
  /\ lp' = IF ev.started THEN "start" ELSE "idle"
  /\ pc' = which

\* the browser loads the hydration module the dev server generates
LoadHydrationModule ==
  /\ pc = "scanned"
  /\ build.pc = "idle"
  /\ Evaluated(Evaluate(GenerateHydrationModule(structure), 1, NotEvaluated),
               "hydrate")
  /\ UNCHANGED <<fs, structure, contract, request, response, modules, pluginVars>>
  /\ UNCHANGED <<document, body, buffer, rowCache, promiseCache, reactRoot, screen>>

\* findClientEntry(root)
FindClientEntry(files) ==
  IF File("src", <<>>, "client.tsx") \in files THEN File("src", <<>>, "client.tsx")
  ELSE IF File("src", <<>>, "client.ts") \in files THEN File("src", <<>>, "client.ts")
  ELSE NoFile

\* closeBundle from the client entry it finds or generates up to the await
\* of tanaBuild, or to its return when there is nothing to hydrate
Entered(entry, st) ==
  IF entry # NoFile
  THEN /\ fs' = fs
       /\ build' = [pc |-> "building", clientEntry |-> entry, generated |-> FALSE,
                    bundle |-> fs[entry], dist |-> {"assets", "index.html"}]
  ELSE IF st.pages = <<>>
  THEN /\ fs' = fs
       /\ build' = [pc |-> "done", clientEntry |-> NoFile, generated |-> FALSE,
                    bundle |-> <<>>, dist |-> {"assets", "index.html"}]
  ELSE /\ fs' = (TempClientPath :> GenerateClientEntryCode(st)) @@ fs
       /\ build' = [pc |-> "building", clientEntry |-> TempClientPath,
                    generated |-> TRUE, bundle |-> GenerateClientEntryCode(st),
                    dist |-> {"assets", "index.html"}]

\* closeBundle(): projectStructure || await scanProject(projectRoot)
CloseBundle ==
  /\ pc \in {"start", "scanned"}
  /\ build.pc = "idle"
  /\ \E st \in (IF pc = "start" THEN ClientScans(fs) ELSE {structure}) :
       /\ structure' = st
       /\ Entered(FindClientEntry(DOMAIN fs), st)
  /\ pc' = "scanned"
  /\ UNCHANGED <<contract, request, response, modules, clientVars, cycles, manifest, devVars>>

\* tanaBuild resolves: the output of Vite in dist/ is removed
TanaBuildResolves ==
  /\ build.pc = "building"
  /\ build' = [build EXCEPT !.pc = "done", !.dist = {"blockchain"}]
  /\ UNCHANGED <<generatorVars, modules, clientVars, cycles, manifest, devVars>>

\* tanaBuild rejects: the error is logged
TanaBuildRejects ==
  /\ build.pc = "building"
  /\ build' = [build EXCEPT !.pc = "done", !.bundle = <<>>]
  /\ UNCHANGED <<generatorVars, modules, clientVars, cycles, manifest, devVars>>

\* the browser loads the bundle built from the generated client entry
LoadClientEntry ==
  /\ pc = "scanned"
  /\ build.pc = "done"
  /\ build.generated
  /\ build.bundle # <<>>
  /\ Evaluated(Evaluate(build.bundle, 1, NotEvaluated), "entry")
  /\ UNCHANGED <<fs, structure, contract, request, response, modules, pluginVars>>
  /\ UNCHANGED <<document, body, buffer, rowCache, promiseCache, reactRoot, screen>>

NextEntry ==
  \/ ScanClientStep
  \/ LoadHydrationModule
  \/ CloseBundle
  \/ TanaBuildResolves
  \/ TanaBuildRejects
  \/ LoadClientEntry

\* client modules: the dev hydration module and the production client entry
SpecEntry == InitEntry /\ [][NextEntry]_vars

\* the moduleIds of the client components of the structure
ListedModuleIds ==
  { structure.clientComponents[i].moduleId : i \in DOMAIN structure.clientComponents }

\* C21: after the evaluation of a generated client module, the hydration
\* module or the client entry, the moduleId of every client component of
\* the structure is in the registry: no registration call ran before the
\* registry and the registration function were defined
C21_RegisteredAfterEvaluation ==
  pc \in {"hydrate", "entry"} => ListedModuleIds \subseteq clientComponents

\* C24: once closeBundle has finished a build from a generated client entry,
\* the temporary file .tana/client.tsx is gone, after a build that resolved
\* and after a build that rejected
C24_TempEntryRemoved ==
  (build.pc = "done" /\ build.generated) => TempClientPath \notin DOMAIN fs

\* C27: no two client components of a scan have the same moduleId
C27_ModuleIdsUnique ==
  pc = "scanned" =>
    \A i, j \in DOMAIN structure.clientComponents :
      structure.clientComponents[i].moduleId = structure.clientComponents[j].moduleId
        => i = j


(***************************************************************************)
(* generateContract await by await.  The builds of the units of one kind   *)
(* are started together and settle in any order; Promise.all gives the     *)
(* array of their results when the last has settled, and rejects when one  *)
(* rejects.  The call is the only element of cycles:                       *)
(*   pc       the kind whose builds are awaited, then done or failed       *)
(*   results  the results of the builds that have settled, by unit         *)
(*   order    per kind, the units in the order their builds settled in     *)
(*   bundles  pageBundles, getBundles and postBundles, once awaited        *)
(***************************************************************************)
\* the list of the structure a kind of unit is bundled from
RoutesOfKind(st, kind) ==
  IF kind = "page" THEN st.pages
  ELSE IF kind = "get" THEN st.apiGet
  ELSE st.apiPost

\* the call up to the await of the builds of a kind
Awaiting(cycle, kind) ==
  [cycle EXCEPT !.pc = kind, !.results = <<>>]

\* generateContract(structure, outDir) up to its first await
Called(st) ==
  [pc |-> "page", structure |-> st, out |-> NoContract, results |-> <<>>,
   order |-> [page |-> <<>>, get |-> <<>>, post |-> <<>>],
   bundles |-> [page |-> <<>>, get |-> <<>>, post |-> <<>>]]

\* an array filled in the order in which the builds settled
PromiseAllAsSettled(results, order) ==
  [j \in 1..Len(order) |-> results[order[j]]]

\* Promise.all: the i-th value is the result of the i-th promise
PromiseAll(results, order) ==
  [i \in 1..Len(order) |-> results[i]]

\* the call after the await of the builds of its kind: the next kind is
\* started, and after the last the hooks are bundled and the text is joined
Resumed(cycle, bundles, files) ==
  IF cycle.pc = "page" THEN Awaiting([cycle EXCEPT !.bundles = bundles], "get")
  ELSE IF cycle.pc = "get" THEN Awaiting([cycle EXCEPT !.bundles = bundles], "post")
  ELSE [cycle EXCEPT !.bundles = bundles,
                     !.results = <<>>,
                     !.out = Assembled(cycle.structure, bundles.page, bundles.get,
                                       bundles.post,
                                       HookBundles(cycle.structure, files)),
                     !.pc = "joined"]

\* the source files of the projects of the concurrent specification
ConcurrentFiles ==
  { File("app", <<>>, "page.tsx"), File("app", <<"p">>, "page.tsx"),
    File("api", <<>>, "get.ts"), File("api", <<"p">>, "get.ts"),
    File("api", <<>>, "post.ts"), File("blockchain", <<>>, "init.ts") }

InitConcurrent ==
  InitWith(UNION { [F -> Versions] : F \in SUBSET ConcurrentFiles })

\* generateContract is called and starts the builds of the pages
GenerateContractStarts ==
  /\ pc = "scanned"
  /\ cycles = <<>>
  /\ cycles' = << Called(structure) >>
  /\ pc' = "generating"
  /\ UNCHANGED <<fs, structure, contract, request, response, modules>>
  /\ UNCHANGED <<clientVars, build, manifest, devVars>>

\* the build of a unit of the awaited kind settles; a build that throws
\* rejects Promise.all and with it generateContract
UnitSettles ==
  /\ pc = "generating"
  /\ cycles[1].pc \in {"page", "get", "post"}
  /\ \E i \in DOMAIN RoutesOfKind(cycles[1].structure, cycles[1].pc) \ DOMAIN cycles[1].results :
       \E b \in { BundleFile(fs[RoutesOfKind(cycles[1].structure, cycles[1].pc)[i].filePath],
                             cycles[1].pc, i - 1) } :
         /\ cycles' = [cycles EXCEPT ![1].results = (i :> b) @@ @,
                                     ![1].order[cycles[1].pc] = Append(@, i),
                                     ![1].pc = IF b.ok THEN @ ELSE "failed"]
         /\ pc' = IF b.ok THEN pc ELSE "failed"
  /\ UNCHANGED <<fs, structure, contract, request, response, modules>>
  /\ UNCHANGED <<clientVars, build, manifest, devVars>>

\* the await of Promise.all resumes with the array of the results
AwaitResumes ==
  /\ pc = "generating"
  /\ cycles[1].pc \in {"page", "get", "post"}
  /\ DOMAIN cycles[1].results = DOMAIN RoutesOfKind(cycles[1].structure, cycles[1].pc)
  /\ cycles' = << Resumed(cycles[1],
                          [cycles[1].bundles EXCEPT
                             ![cycles[1].pc] = PromiseAll(cycles[1].results,
                                                          cycles[1].order[cycles[1].pc])],
                          fs) >>
  /\ UNCHANGED <<fs, structure, contract, pc, request, response, modules>>
  /\ UNCHANGED <<clientVars, build, manifest, devVars>>

\* fs.writeFileSync(contractPath, code), unless a hook has thrown
ContractWritten ==
  /\ pc = "generating"
  /\ cycles[1].pc = "joined"
  /\ cycles' = [cycles EXCEPT ![1].pc = IF cycles[1].out.written THEN "done" ELSE "failed"]
  /\ contract' = cycles[1].out
  /\ pc' = IF cycles[1].out.written THEN "ready" ELSE "failed"
  /\ UNCHANGED <<fs, structure, request, response, modules>>
  /\ UNCHANGED <<clientVars, build, manifest, devVars>>

NextConcurrent ==
  \/ ScanProjectStep
  \/ GenerateContractStarts
  \/ UnitSettles
  \/ AwaitResumes
  \/ ContractWritten

\* concurrent bundling: the builds of a kind settle in every order
SpecConcurrent == InitConcurrent /\ [][NextConcurrent]_vars

\* the name the i-th route of a kind is dispatched to by its router
DispatchedTo(kind, i) ==
  IF kind = "page" THEN contract.pageRouter.clauses[i].componentName
  ELSE IF kind = "get" THEN contract.getRouter.items[i].handlerName
  ELSE contract.postRouter.items[i].handlerName

\* the place of the i-th unit of a kind among the units of the contract
PlaceOf(kind, i) ==
  IF kind = "page" THEN i
  ELSE IF kind = "get" THEN Len(structure.pages) + i
  ELSE Len(structure.pages) + Len(structure.apiGet) + i

\* the unit bundled from the source file of the i-th route of a kind
UnitOf(kind, i) ==
  BundleFile(fs[RoutesOfKind(structure, kind)[i].filePath], kind, i - 1)

\* C31: in the contract that is written, the router of each kind sends its
\* i-th route to the alias of the unit bundled from the source file of that
\* route, and the code of that unit is in the contract, in whatever order
\* the builds of the kind have settled
C31_RoutesKeepTheirUnits ==
  pc = "ready" =>
    \A kind \in {"page", "get", "post"} :
      \A i \in DOMAIN RoutesOfKind(structure, kind) :
        /\ DispatchedTo(kind, i) = UnitOf(kind, i).componentName
        /\ contract.units[PlaceOf(kind, i)] = UnitOf(kind, i)

\* two pages with different sources whose builds settled in the order
\* opposite to the order of the catalog
C31_Witness ==
  /\ pc = "ready"
  /\ Len(structure.pages) = 2
  /\ fs[structure.pages[1].filePath] # fs[structure.pages[2].filePath]
  /\ cycles[1].order.page = <<2, 1>>


(***************************************************************************)
(* Decoding of caches whose rows refer to each other.                      *)
(***************************************************************************)
\* the lines of the responses with references among the rows: rows 0 and 1
\* that refer to row 1, to row 0 and to themselves, directly, from an array
\* and from the props of an element, and a row 1 that refers to no row
ReferenceLines ==
  { RowText(0, Lazy(1)), RowText(0, Lazy(0)), RowText(0, Arr(<< Num(1), Lazy(1) >>)),
    RowText(0, FlightElement(<<"p">>, Null,
                             Obj(<< [k |-> ChildrenName, v |-> Lazy(1)] >>))),
    RowText(1, Lazy(0)), RowText(1, Lazy(1)), RowText(1, Str(<<"a">>)),
    RowText(1, Arr(<< Lazy(2) >>)) }

\* pages with the data island and an empty #root
InitDecode ==
  /\ fs = <<>>
  /\ PluginIdle
  /\ modules = <<>>
  /\ structure = [pages |-> <<>>, apiGet |-> <<>>, apiPost |-> <<>>,
                  init |-> Unset, contract |-> Unset]
  /\ contract = NoContract
  /\ pc = "start"
  /\ request = NoRequest
  /\ response = NoResponse
  /\ clientComponents = {}
  /\ document \in { [pathname |-> "/", island |-> TRUE, flightData |-> text,
                     rootChildren |-> 0, placeholders |-> <<>>] :
                      text \in PayloadsOf(ReferenceLines) }
  /\ body = [ok |-> TRUE, sent |-> <<>>, resumed |-> FALSE]
  /\ buffer = <<>>
  /\ rowCache = <<>>
  /\ promiseCache = <<>>
  /\ reactRoot = 0
  /\ screen = [roots |-> 0, renders |-> 0, tree |-> [t |-> "none"],
               renderedInto |-> 0, mounts |-> <<>>, fetches |-> <<>>]
  /\ lp = "start"

NextDecode == LoadPage

\* decoding: every cache of at most MaxRows rows that refer to each other
SpecDecode == InitDecode /\ [][NextDecode]_vars

\* C38: when processFlightData has put the rows into the cache and row 0 is
\* there, the call flightToReact(rowCache.get(0)) of render() has returned:
\* the tree is rendered and loadPage is done
C38_DecodingReturns ==
  (lp # "start" /\ HasRow(rowCache, 0)) =>
    /\ Outcome(rowCache[0], rowCache, clientComponents, {}) = "returns"
    /\ lp = "done"
    /\ screen.renders = 1


(***************************************************************************)
(* The file watcher of the dev server.  Every change of a file of the      *)
(* project, the contract.js a rebuild writes included, gives a change      *)
(* event; watch lists the events [file, handled], and handleHotUpdate      *)
(* takes them in order.                                                    *)
(***************************************************************************)
\* String.prototype.includes
Includes(s, sub) ==
  \E i \in 1..(Len(s) - Len(sub) + 1) : SubSeq(s, i, i + Len(sub) - 1) = sub

\* the path handleHotUpdate is called with, for a project in /w
AbsolutePath(file) == <<"/", "w", "/">> \o RelativePath(file)

\* file.endsWith of one of the extensions
EndsWithOneOf(path, extensions) == \E e \in extensions : EndsWith(path, e)

\* isGeneratedFile
IsGeneratedFile(path) ==
  \/ EndsWith(path, <<"/", "s", "s", "r", ".", "j", "s">>)
  \/ EndsWith(path, <<"/", "c", "o", "n", "t", "r", "a", "c", "t", ".", "j", "s">>)

\* a handler that rebuilds for every file of the three directories
RebuildsOnAnyChange(path) ==
  \/ Includes(path, <<"/", "a", "p", "p", "/">>)
  \/ Includes(path, <<"/", "a", "p", "i", "/">>)
  \/ Includes(path, <<"/", "b", "l", "o", "c", "k", "c", "h", "a", "i", "n", "/">>)

\* handleHotUpdate calls rebuildUnifiedContract(): the file is not generated
\* and isAppFile || isApiFile || isBlockchainFile
RebuildsOnChange(path) ==
  /\ ~IsGeneratedFile(path)
  /\ \/ /\ Includes(path, <<"/", "a", "p", "p", "/">>)
        /\ EndsWithOneOf(path, { <<".", "t", "s", "x">>, <<".", "t", "s">>,
                                 <<".", "j", "s", "x">>, <<".", "j", "s">> })
     \/ /\ Includes(path, <<"/", "a", "p", "i", "/">>)
        /\ EndsWithOneOf(path, { <<".", "t", "s", "x">>, <<".", "t", "s">>,
                                 <<".", "j", "s", "x">>, <<".", "j", "s">> })
     \/ /\ Includes(path, <<"/", "b", "l", "o", "c", "k", "c", "h", "a", "i", "n", "/">>)
        /\ EndsWithOneOf(path, { <<".", "t", "s", "x">>, <<".", "t", "s">> })

\* the file generateContract writes: <contractsDir>/<contractId>/contract.js
ContractPath == File("blockchain", <<>>, "contract.js")

\* the files whose changes the watcher reports: the sources of the server
\* code and a file of the client
WatchedSources == RebuildFiles \cup { File("src", <<>>, "client.tsx") }

Event(file) == [file |-> file, handled |-> FALSE]

\* the events handleHotUpdate has not been called for
Unhandled == { i \in DOMAIN watch : ~watch[i].handled }

\* a file of the project is saved
FileSaved ==
  /\ Cardinality({ i \in DOMAIN watch : watch[i].file # ContractPath }) < MaxCycles
  /\ \E f \in WatchedSources, v \in Versions :
       /\ fs' = (f :> v) @@ fs
       /\ fs' # fs
       /\ watch' = Append(watch, Event(f))
  /\ UNCHANGED <<structure, contract, pc, request, response, modules>>
  /\ UNCHANGED <<clientVars, cycles, build, manifest, edge>>

\* handleHotUpdate({ file }) for the oldest event, with the part of
\* rebuildUnifiedContract up to its first await of a build
HotUpdate ==
  /\ Unhandled # {}
  /\ \E i \in Unhandled :
       /\ \A j \in Unhandled : i <= j
       /\ watch' = [watch EXCEPT ![i].handled = TRUE]
       /\ IF RebuildsOnChange(AbsolutePath(watch[i].file))
          THEN \E scan \in ScanProject(DOMAIN fs) :
                 /\ structure' = scan
                 /\ cycles' = Append(cycles, Started(scan))
          ELSE UNCHANGED <<structure, cycles>>
  /\ UNCHANGED <<fs, contract, pc, request, response, modules>>
  /\ UNCHANGED <<clientVars, build, manifest, edge>>

\* fs.writeFileSync(contractPath, code): the watcher reports the change
ContractFileWritten ==
  /\ \E c \in 1..Len(cycles) :
       /\ ReachesWrite(cycles[c])
       /\ contract' = cycles[c].out
       /\ cycles' = [cycles EXCEPT ![c].pc = "done"]
  /\ watch' = Append(watch, Event(ContractPath))
  /\ UNCHANGED <<fs, structure, pc, request, response, modules>>
  /\ UNCHANGED <<clientVars, build, manifest, edge>>

NextWatch ==
  \/ FileSaved
  \/ HotUpdate
  \/ BuildsSettle
  \/ ContractFileWritten

\* the watcher: saves of the sources and the writes of the rebuilds
SpecWatch == InitRebuild /\ [][NextWatch]_vars

\* the events handled so far that report a save of a source of the server
HandledSaves ==
  { i \in DOMAIN watch : watch[i].handled /\ watch[i].file \in RebuildFiles }

\* C33: the generation cycles are as many as the handled saves of the
\* sources of the server code: an event for the contract.js a rebuild has
\* written starts no cycle, and a save starts exactly one
C33_NoRebuildLoop == Len(cycles) = Cardinality(HandledSaves)

\* a rebuild has written contract.js, the event of that write has been
\* handled, and there is still the one cycle of the one save
C33_Witness ==
  /\ \E i \in DOMAIN watch : watch[i].file = ContractPath /\ watch[i].handled
  /\ Unhandled = {}
  /\ Len(cycles) = 1
  /\ cycles[1].pc = "done"


(***************************************************************************)
(* The dev server: configureServer, the initial contract, the tana-edge    *)
(* process, the readiness promise and the requests that wait for it.       *)
(* edge.variant tells the two builds of the plugin apart: "stdout" reads   *)
(* readiness from the output of the process (src/index.ts), "health" polls *)
(* the /health endpoint (the later index.ts).                              *)
(***************************************************************************)
\* resetEdgeReady(): edgeReady = false and a new edgeReadyPromise
ResetEdgeReady(e) == [e EXCEPT !.ready = FALSE, !.promise = @ + 1]

\* edgeReady = true; resolveEdgeReady(): resolves the promise of the last
\* resetEdgeReady()
ReportReady(e) ==
  [e EXCEPT !.ready = TRUE, !.resolved = @ \cup { e.promise }]

\* startTanaEdge is called without waiting for the initial contract
NotAwaited(e) == e.pc \in {"building", "built"}

\* await buildInitialContract() has returned to the async function of
\* configureServer
Awaited(e) == e.pc = "built"

\* a middleware that proxies without waiting
ResumableAtOnce(r, resolved) == TRUE

\* the await of a suspended middleware returns: its promise is resolved
Resumable(r, resolved) == r.promise \in resolved

\* resolve() and reject() of the promise of waitForEdgeHealth
Settle(h, how) == IF h.settled = "pending" THEN [h EXCEPT !.settled = how] ELSE h

\* the body shared by the 'error' and the 'timeout' handler
ProbeFailed(h) ==
  IF h.attempts >= MaxAttempts
  THEN Settle(h, "rejected")
  ELSE [h EXCEPT !.timers = @ + 1]

\* check(): attempts++ and a request to /health
Check(h) == [h EXCEPT !.attempts = @ + 1, !.outstanding = @ + 1]

\* configureServer in dev mode: the async function starts
\* buildInitialContract(); another tana-edge may hold the port
ConfigureServer ==
  /\ edge.pc = "idle"
  /\ \E variant \in {"stdout", "health"}, foreign \in BOOLEAN :
       edge' = [edge EXCEPT !.pc = "building", !.variant = variant,
                            !.foreign = foreign]
  /\ UNCHANGED <<generatorVars, clientVars, cycles, build, manifest, watch>>

\* buildInitialContract returns: it catches every error of the scan and the
\* generation
InitialContractSettles ==
  /\ edge.pc = "building"
  /\ \E outcome \in {"ok", "failed"} :
       edge' = [edge EXCEPT !.pc = "built", !.attempt = outcome]
  /\ UNCHANGED <<generatorVars, clientVars, cycles, build, manifest, watch>>

\* startTanaEdge(): spawn, and in the later build waitForEdgeHealth()
StartTanaEdge ==
  /\ Awaited(edge)
  /\ edge' = [edge EXCEPT !.pc = "started", !.process = "running",
                          !.health = IF edge.variant = "health"
                                     THEN Check([NoHealth EXCEPT !.settled = "pending"])
                                     ELSE @]
  /\ UNCHANGED <<generatorVars, clientVars, cycles, build, manifest, watch>>

\* tana-edge listens on its port and says so on its output
EdgeListens ==
  /\ edge.process = "running"
  /\ ~edge.listening
  /\ ~edge.foreign
  /\ edge' = [edge EXCEPT !.listening = TRUE,
                          !.output = IF edge.variant = "stdout" THEN 1 ELSE @]
  /\ UNCHANGED <<generatorVars, clientVars, cycles, build, manifest, watch>>

\* the 'data' handler of stdout or stderr reads the line of readiness
EdgeOutputRead ==
  /\ edge.output > 0
  /\ edge' = ReportReady([edge EXCEPT !.output = 0])
  /\ UNCHANGED <<generatorVars, clientVars, cycles, build, manifest, watch>>

\* the 'exit' handler of the process
EdgeExits ==
  /\ edge.process = "running"
  /\ edge' = ResetEdgeReady([edge EXCEPT !.process = "exited", !.listening = FALSE])
  /\ UNCHANGED <<generatorVars, clientVars, cycles, build, manifest, watch>>

\* a request to /health gets a response: resolve()
ProbeAnswered ==
  /\ edge.health.outstanding > 0
  /\ edge.listening \/ edge.foreign
  /\ edge' = [edge EXCEPT !.health =
                Settle([edge.health EXCEPT !.outstanding = @ - 1], "resolved")]
  /\ UNCHANGED <<generatorVars, clientVars, cycles, build, manifest, watch>>

\* req.on('error')
ProbeErrors ==
  /\ edge.health.outstanding > 0
  /\ edge' = [edge EXCEPT !.health =
                ProbeFailed([edge.health EXCEPT !.outstanding = @ - 1])]
  /\ UNCHANGED <<generatorVars, clientVars, cycles, build, manifest, watch>>

\* req.on('timeout'): req.destroy() and the body of a failure
ProbeTimesOut ==
  /\ edge.health.outstanding > 0
  /\ edge' = [edge EXCEPT !.health =
                ProbeFailed([edge.health EXCEPT !.outstanding = @ - 1,
                                                !.destroyed = @ + 1])]
  /\ UNCHANGED <<generatorVars, clientVars, cycles, build, manifest, watch>>

\* a request destroyed before its response emits 'error' (socket hang up)
DestroyedProbeErrors ==
  /\ edge.health.destroyed > 0
  /\ edge' = [edge EXCEPT !.health =
                ProbeFailed([edge.health EXCEPT !.destroyed = @ - 1])]
  /\ UNCHANGED <<generatorVars, clientVars, cycles, build, manifest, watch>>

\* setTimeout(check, intervalMs) fires
RetryFires ==
  /\ edge.health.timers > 0
  /\ edge' = [edge EXCEPT !.health = Check([edge.health EXCEPT !.timers = @ - 1])]
  /\ UNCHANGED <<generatorVars, clientVars, cycles, build, manifest, watch>>

\* waitForEdgeHealth().then(...)
HealthReported ==
  /\ edge.health.settled = "resolved"
  /\ ~edge.health.then
  /\ edge' = ReportReady([edge EXCEPT !.health.then = TRUE])
  /\ UNCHANGED <<generatorVars, clientVars, cycles, build, manifest, watch>>

\* waitForEdgeHealth().catch(...)
HealthRejected ==
  /\ edge.health.settled = "rejected"
  /\ ~edge.health.then
  /\ edge' = [edge EXCEPT !.health.then = TRUE]
  /\ UNCHANGED <<generatorVars, clientVars, cycles, build, manifest, watch>>

\* a page or API request reaches its middleware: if (!edgeReady) await
\* edgeReadyPromise, else the proxy at once
RequestArrives ==
  /\ edge.pc # "idle"
  /\ Len(edge.requests) < MaxRequests
  /\ edge' = [edge EXCEPT !.requests =
                Append(@, [state |-> IF edge.ready THEN "proxied" ELSE "waiting",
                           sawReady |-> edge.ready,
                           promise |-> IF edge.ready THEN 0 ELSE edge.promise])]
  /\ UNCHANGED <<generatorVars, clientVars, cycles, build, manifest, watch>>

\* the middleware of request r continues after its await and proxies
RequestResumes(r) ==
  /\ r \in DOMAIN edge.requests
  /\ edge.requests[r].state = "waiting"
  /\ Resumable(edge.requests[r], edge.resolved)
  /\ edge' = [edge EXCEPT !.requests[r].state = "proxied"]
  /\ UNCHANGED <<generatorVars, clientVars, cycles, build, manifest, watch>>

NextDev ==
  \/ ConfigureServer
  \/ InitialContractSettles
  \/ StartTanaEdge
  \/ EdgeListens
  \/ EdgeOutputRead
  \/ EdgeExits
  \/ ProbeAnswered
  \/ ProbeErrors
  \/ ProbeTimesOut
  \/ DestroyedProbeErrors
  \/ RetryFires
  \/ HealthReported
  \/ HealthRejected
  \/ RequestArrives
  \/ \E r \in 1..MaxRequests : RequestResumes(r)

InitDev == InitWith({ <<>> })

\* the dev server
SpecDev == InitDev /\ [][NextDev]_vars

\* the dev server with the event loop running: a continuation that can run
\* does run
SpecDevFair ==
  /\ SpecDev
  /\ \A r \in 1..MaxRequests : WF_vars(RequestResumes(r))
  /\ WF_vars(EdgeOutputRead)
  /\ WF_vars(HealthReported)
  /\ WF_vars(StartTanaEdge)

\* C32: tana-edge has been spawned only after the initial contract attempt
\* has completed, and once the async function of configureServer is past
\* its await the process has been spawned, whatever the outcome
C32_EdgeAfterInitialContract ==
  /\ edge.process # "none" => edge.attempt \in {"ok", "failed"}
  /\ edge.pc = "started" => edge.process # "none"

\* tana-edge runs after an initial contract attempt that failed
C32_Witness == edge.process = "running" /\ edge.attempt = "failed"

\* C34: every proxied request either saw edgeReady true when it was
\* checked or waited on a readiness promise that has been resolved
C34_ProxiedAfterReadiness ==
  \A r \in DOMAIN edge.requests :
    edge.requests[r].state = "proxied" =>
      \/ edge.requests[r].sawReady
      \/ edge.requests[r].promise \in edge.resolved

\* a request that arrived before tana-edge was ready has been proxied
C34_Witness ==
  \E r \in DOMAIN edge.requests :
    /\ edge.requests[r].state = "proxied"
    /\ ~edge.requests[r].sawReady

\* C35: a request that waits while tana-edge is reported ready is
\* eventually proxied
C35_WaitingEventuallyProxied ==
  \A r \in 1..MaxRequests :
    (/\ r \in DOMAIN edge.requests
     /\ edge.requests[r].state = "waiting"
     /\ edge.ready)
    ~> (/\ r \in DOMAIN edge.requests
        /\ edge.requests[r].state = "proxied")

\* C36: waitForEdgeHealth issues at most maxAttempts probes
C36_AtMostMaxAttempts == edge.health.attempts <= MaxAttempts

\* C37: at most one health probe is outstanding or scheduled
C37_OneProbeAtATime == edge.health.outstanding + edge.health.timers <= 1

====
